---------------------------- MODULE Spec2Model ----------------------------
(***************************************************************************)
(* A model of FDC3AWSKMSSigner (src/src/aws-kms-signer.ts): sign and       *)
(* verify of FDC3 context objects with a key held by AWS KMS.              *)
(*                                                                         *)
(* Text is modelled character by character: a JavaScript string is a       *)
(* sequence of one-character strings, a Buffer is a sequence of bytes      *)
(* (0..255).  A JavaScript value is a tagged record [t, v]:                *)
(*   "null" | "bool" | "num" | "str" | "arr" | "obj"                       *)
(* and an object's v is the sequence of its own properties [k, v] in the   *)
(* order Object.keys enumerates them (array-index keys ascending, then     *)
(* the other keys in creation order).                                      *)
(***************************************************************************)
EXTENDS Integers, Sequences, FiniteSets, TLC

(***************************************************************************)
(* Characters and their UTF-16 code units (printable ASCII; the grave      *)
(* accent, 96, is never used and is only a place holder).                  *)
(***************************************************************************)
Ascii ==
  << " ", "!", "\"", "#", "$", "%", "&", "'", "(", ")", "*", "+", ",", "-", ".", "/",
     "0", "1", "2", "3", "4", "5", "6", "7", "8", "9", ":", ";", "<", "=", ">", "?",
     "@", "A", "B", "C", "D", "E", "F", "G", "H", "I", "J", "K", "L", "M", "N", "O",
     "P", "Q", "R", "S", "T", "U", "V", "W", "X", "Y", "Z", "[", "\\", "]", "^", "_",
     "GRAVE", "a", "b", "c", "d", "e", "f", "g", "h", "i", "j", "k", "l", "m", "n", "o",
     "p", "q", "r", "s", "t", "u", "v", "w", "x", "y", "z", "{", "|", "}", "~" >>

IndexOf(seq, x) == CHOOSE i \in 1..Len(seq) : seq[i] = x

CodeUnitTable == [c \in {Ascii[i] : i \in 1..95} |-> 31 + IndexOf(Ascii, c)]

CodeUnit(c) == CodeUnitTable[c]

CharOf(u) == Ascii[u - 31]

Digits == << "0", "1", "2", "3", "4", "5", "6", "7", "8", "9" >>

IsDigit(c) == \E i \in 1..10 : Digits[i] = c

RECURSIVE Concat(_)
\* Array.prototype.join('') of a sequence of strings.
Concat(parts) ==
  IF parts = << >> THEN << >> ELSE Head(parts) \o Concat(Tail(parts))

RECURSIVE Join(_, _)
\* Array.prototype.join(sep).
Join(parts, sep) ==
  IF parts = << >> THEN << >>
  ELSE IF Len(parts) = 1 THEN parts[1]
  ELSE parts[1] \o sep \o Join(Tail(parts), sep)

(***************************************************************************)
(* JavaScript values.                                                      *)
(***************************************************************************)
Null == [t |-> "null", v |-> 0]
Bool(b) == [t |-> "bool", v |-> b]
Num(n) == [t |-> "num", v |-> n]
Str(s) == [t |-> "str", v |-> s]
Arr(xs) == [t |-> "arr", v |-> xs]
Obj(ps) == [t |-> "obj", v |-> ps]
Prop(k, x) == [k |-> k, v |-> x]

\* The comparison of Array.prototype.sort() without a comparator: strings by
\* their UTF-16 code units, a proper prefix first.
RECURSIVE LexLess(_, _)
LexLess(a, b) ==
  IF b = << >> THEN FALSE
  ELSE IF a = << >> THEN TRUE
  ELSE IF Head(a) = Head(b) THEN LexLess(Tail(a), Tail(b))
  ELSE CodeUnit(Head(a)) < CodeUnit(Head(b))

MaxArrayIndex == << "4", "2", "9", "4", "9", "6", "7", "2", "9", "5" >>

\* The numeric order of two canonical decimal strings.
NumLess(a, b) == Len(a) < Len(b) \/ (Len(a) = Len(b) /\ LexLess(a, b))

\* An array index: the canonical decimal string of an integer below 2^32 - 1.
\* Such keys are enumerated first, in ascending numeric order.
IsArrayIndex(k) ==
  /\ k # << >>
  /\ \A i \in 1..Len(k) : IsDigit(k[i])
  /\ (Len(k) > 1 => k[1] # "0")
  /\ NumLess(k, MaxArrayIndex)

HasOwn(ps, k) == \E i \in 1..Len(ps) : ps[i].k = k

GetOwn(ps, k) == ps[IndexOf([i \in 1..Len(ps) |-> ps[i].k], k)].v

\* Where a new own property k goes in the enumeration order of ps.
InsertAt(ps, k) ==
  IF IsArrayIndex(k)
  THEN 1 + Cardinality({i \in 1..Len(ps) :
                          IsArrayIndex(ps[i].k) /\ NumLess(ps[i].k, k)})
  ELSE Len(ps) + 1

\* CreateDataProperty on an ordinary object: an existing key keeps its place.
DefineOwn(ps, k, x) ==
  IF HasOwn(ps, k)
  THEN [i \in 1..Len(ps) |-> IF ps[i].k = k THEN Prop(k, x) ELSE ps[i]]
  ELSE LET at == InsertAt(ps, k)
       IN  SubSeq(ps, 1, at - 1) \o << Prop(k, x) >> \o SubSeq(ps, at, Len(ps))

ProtoKey == << "_", "_", "p", "r", "o", "t", "o", "_", "_" >>

\* The assignment o[k] = x on an object created by {} : the key "__proto__"
\* reaches the accessor of Object.prototype (which sets the prototype, or does
\* nothing for a primitive) and creates no own property.
SetProp(ps, k, x) ==
  IF k = ProtoKey THEN ps ELSE DefineOwn(ps, k, x)

ObjectKeys(ps) == [i \in 1..Len(ps) |-> ps[i].k]

RECURSIVE SortInsert(_, _)
SortInsert(sorted, k) ==
  IF sorted = << >> THEN << k >>
  ELSE IF LexLess(k, Head(sorted)) THEN << k >> \o sorted
  ELSE << Head(sorted) >> \o SortInsert(Tail(sorted), k)

RECURSIVE ArraySort(_)
\* Array.prototype.sort() on an array of strings.
ArraySort(ks) ==
  IF ks = << >> THEN << >>
  ELSE SortInsert(ArraySort(SubSeq(ks, 1, Len(ks) - 1)), ks[Len(ks)])

(***************************************************************************)
(* canonicalizeContext: sortKeys, then JSON.stringify.                     *)
(***************************************************************************)
RECURSIVE sortKeys(_)
RECURSIVE SortedFill(_, _, _)
\* Object.keys(obj).sort().forEach(key => sorted[key] = sortKeys(obj[key]))
SortedFill(sorted, ks, ps) ==
  IF ks = << >> THEN sorted
  ELSE SortedFill(SetProp(sorted, Head(ks), sortKeys(GetOwn(ps, Head(ks)))), Tail(ks), ps)

sortKeys(x) ==
  IF x.t = "arr" THEN Arr([i \in 1..Len(x.v) |-> sortKeys(x.v[i])])
  ELSE IF x.t = "obj" THEN Obj(SortedFill(<< >>, ArraySort(ObjectKeys(x.v)), x.v))
  ELSE x

RECURSIVE NatChars(_)
NatChars(n) ==
  IF n < 10 THEN << Digits[n + 1] >> ELSE NatChars(n \div 10) \o << Digits[(n % 10) + 1] >>

\* Number::toString of an integer.
NumberToString(n) == IF n < 0 THEN << "-" >> \o NatChars(-n) ELSE NatChars(n)

\* QuoteJSONString: the quotation mark and the reverse solidus are escaped.
QuoteJSONString(s) ==
  << "\"" >>
  \o Concat([i \in 1..Len(s) |->
               IF s[i] = "\"" \/ s[i] = "\\" THEN << "\\", s[i] >> ELSE << s[i] >>])
  \o << "\"" >>

RECURSIVE JSONStringify(_)
\* JSON.stringify(value) with no indent, on JSON-compatible values.
JSONStringify(x) ==
  CASE x.t = "null" -> << "n", "u", "l", "l" >>
    [] x.t = "bool" -> IF x.v THEN << "t", "r", "u", "e" >> ELSE << "f", "a", "l", "s", "e" >>
    [] x.t = "num"  -> NumberToString(x.v)
    [] x.t = "str"  -> QuoteJSONString(x.v)
    [] x.t = "arr"  ->
         << "[" >> \o Join([i \in 1..Len(x.v) |-> JSONStringify(x.v[i])], << "," >>) \o << "]" >>
    [] x.t = "obj"  ->
         << "{" >>
         \o Join([i \in 1..Len(x.v) |->
                    QuoteJSONString(x.v[i].k) \o << ":" >> \o JSONStringify(x.v[i].v)],
                 << "," >>)
         \o << "}" >>

\* (A variant that puts the keys of the object it is given in order.)
sortKeysInPlace(obj) == sortKeys(obj)

\* What a call of sortKeys leaves in the object it is given.  sortKeys reads
\* Object.keys(obj) and obj[key]; it writes to the fresh object sorted only,
\* sort() orders the fresh array of keys and map() returns a new array.
sortKeysArgument(obj) == obj

\* (A variant that writes the object as it is.)
canonicalizeContextUnsorted(context) == JSONStringify(context)

canonicalizeContext(context) == JSONStringify(sortKeys(context))

\* Buffer.from(string, 'utf8') on ASCII text.
Utf8(s) == [i \in 1..Len(s) |-> CodeUnit(s[i])]

(***************************************************************************)
(* Base64, as Buffer.prototype.toString('base64') writes it and as         *)
(* Buffer.from(string, 'base64') reads it.                                 *)
(***************************************************************************)
Base64Alphabet ==
  << "A", "B", "C", "D", "E", "F", "G", "H", "I", "J", "K", "L", "M", "N", "O", "P", "Q",
     "R", "S", "T", "U", "V", "W", "X", "Y", "Z", "a", "b", "c", "d", "e", "f", "g", "h",
     "i", "j", "k", "l", "m", "n", "o", "p", "q", "r", "s", "t", "u", "v", "w", "x", "y",
     "z", "0", "1", "2", "3", "4", "5", "6", "7", "8", "9", "+", "/" >>

Base64Char(n) == Base64Alphabet[n + 1]

RECURSIVE toBase64(_)
\* Buffer.prototype.toString('base64'): three bytes give four characters, and
\* the last group is padded with "=".
toBase64(b) ==
  IF b = << >> THEN << >>
  ELSE IF Len(b) = 1
    THEN << Base64Char(b[1] \div 4), Base64Char((b[1] % 4) * 16), "=", "=" >>
  ELSE IF Len(b) = 2
    THEN << Base64Char(b[1] \div 4), Base64Char((b[1] % 4) * 16 + b[2] \div 16),
            Base64Char((b[2] % 16) * 4), "=" >>
  ELSE << Base64Char(b[1] \div 4), Base64Char((b[1] % 4) * 16 + b[2] \div 16),
          Base64Char((b[2] % 16) * 4 + b[3] \div 64), Base64Char(b[3] % 64) >>
       \o toBase64(SubSeq(b, 4, Len(b)))

\* The value of a character for the decoder: the URL-safe "-" and "_" are
\* read as "+" and "/"; -1 for a character outside both alphabets.
unbase64Table ==
  [c \in {Ascii[i] : i \in 1..95} \cup {"\n"} |->
     IF \E i \in 1..64 : Base64Alphabet[i] = c THEN IndexOf(Base64Alphabet, c) - 1
     ELSE IF c = "-" THEN 62
     ELSE IF c = "_" THEN 63
     ELSE -1]

unbase64(c) == unbase64Table[c]

RECURSIVE Sextets(_)
\* The legal characters up to the first "=": decoding stops at "=", and any
\* other illegal character (white space included) is skipped.
Sextets(s) ==
  IF s = << >> \/ Head(s) = "=" THEN << >>
  ELSE IF unbase64(Head(s)) < 0 THEN Sextets(Tail(s))
  ELSE << unbase64(Head(s)) >> \o Sextets(Tail(s))

RECURSIVE SextetsToBytes(_)
\* A last group of two characters gives one byte and of three gives two; the
\* bits left over are dropped unread.
SextetsToBytes(q) ==
  IF Len(q) < 2 THEN << >>
  ELSE IF Len(q) = 2 THEN << q[1] * 4 + q[2] \div 16 >>
  ELSE IF Len(q) = 3 THEN << q[1] * 4 + q[2] \div 16, (q[2] % 16) * 16 + q[3] \div 4 >>
  ELSE << q[1] * 4 + q[2] \div 16, (q[2] % 16) * 16 + q[3] \div 4, (q[3] % 4) * 64 + q[4] >>
       \o SextetsToBytes(SubSeq(q, 5, Len(q)))

\* Buffer.from(string, 'base64').
fromBase64(s) == SextetsToBytes(Sextets(s))

(***************************************************************************)
(* derToPem.                                                               *)
(***************************************************************************)
PemHeader ==
  << "-", "-", "-", "-", "-", "B", "E", "G", "I", "N", " ", "P", "U", "B", "L", "I", "C",
     " ", "K", "E", "Y", "-", "-", "-", "-", "-" >>

PemFooter ==
  << "-", "-", "-", "-", "-", "E", "N", "D", " ", "P", "U", "B", "L", "I", "C", " ", "K",
     "E", "Y", "-", "-", "-", "-", "-" >>

PemLineWidth == 64

RECURSIVE MatchChunks(_, _)
\* base64.match(/.{1,64}/g): the string cut into pieces of 64 characters, the
\* last one possibly shorter; no piece (null) for the empty string.
MatchChunks(s, width) ==
  IF s = << >> THEN << >>
  ELSE IF Len(s) <= width THEN << s >>
  ELSE << SubSeq(s, 1, width) >> \o MatchChunks(SubSeq(s, width + 1, Len(s)), width)

\* (A variant that leaves the base64 text on one line.)
derToPemUnfolded(derBuffer) ==
  PemHeader \o << "\n" >> \o toBase64(derBuffer) \o << "\n" >> \o PemFooter

derToPem(derBuffer) ==
  LET base64 == toBase64(derBuffer)
      chunks == MatchChunks(base64, PemLineWidth)
      pem    == IF chunks = << >> THEN base64 ELSE Join(chunks, << "\n" >>)
  IN  PemHeader \o << "\n" >> \o pem \o << "\n" >> \o PemFooter

(***************************************************************************)
(* Optional values (a field that may be undefined) and thrown values.      *)
(***************************************************************************)
None == << >>
Some(v) == << v >>
IsSome(o) == o # << >>
The(o) == o[1]

\* new Error(message), and a thrown value that is no Error (a string).
Error(message) == [isError |-> TRUE, message |-> Some(message), text |-> "Error: " \o message]
Thrown(text) == [isError |-> FALSE, message |-> None, text |-> text]

\* error instanceof Error ? error.message : String(error)
ErrorText(error) == IF error.isError THEN The(error.message) ELSE error.text

(***************************************************************************)
(* The key service (AWS KMS) and the local primitive (Node.js crypto).     *)
(* A key pair is a number; its public key travels as DER bytes.  The       *)
(* signatures the service has issued are recorded in the variable issued,  *)
(* and a signature verifies exactly when the service issued it for the     *)
(* same key pair, padding scheme, digest and message (signatures cannot be *)
(* forged).                                                                *)
(***************************************************************************)
KeyPairs == {1, 2, 3}

KeySpecOf(pair) == IF pair = 2 THEN "ECC_NIST_P256" ELSE "RSA_2048"

\* The SubjectPublicKeyInfo bytes of a key pair (shortened stand-ins: long
\* enough for an RSA key to fill more than one PEM line).
PublicKeyDerTable ==
  [pair \in KeyPairs |->
     IF pair = 2 THEN [i \in 1..7 |-> (48 + 29 * i) % 256]
     ELSE [i \in 1..50 |-> (48 + 7 * pair + 13 * i) % 256]]

PublicKeyDer(pair) == PublicKeyDerTable[pair]

KeyIds == {"alias/trading-key", "alias/risk-key", "alias/settlement-key", "alias/retired-key"}

\* SigningAlgorithmSpec values (three of the enumeration) and what each
\* means at the service: the key it needs, the scheme and the digest.
RSASSA_PKCS1_V1_5_SHA_256 == "RSASSA_PKCS1_V1_5_SHA_256"
ECDSA_SHA_256 == "ECDSA_SHA_256"
RSASSA_PSS_SHA_256 == "RSASSA_PSS_SHA_256"

SigningAlgorithmSpec == {RSASSA_PKCS1_V1_5_SHA_256, ECDSA_SHA_256, RSASSA_PSS_SHA_256}

AlgorithmKeySpec(alg) == IF alg = ECDSA_SHA_256 THEN "ECC_NIST_P256" ELSE "RSA_2048"

AlgorithmScheme(alg) ==
  CASE alg = RSASSA_PKCS1_V1_5_SHA_256 -> "PKCS1"
    [] alg = ECDSA_SHA_256 -> "ECDSA"
    [] alg = RSASSA_PSS_SHA_256 -> "PSS"

\* The bytes of the n-th signature the service issues (shortened stand-ins).
\* An RSA-2048 signature has 256 bytes and a DER-encoded ECDSA one 70 to 72:
\* the stand-ins have the same lengths modulo 3, so the same base64 padding.
SignatureBytes(n, scheme) ==
  LET len == IF scheme = "ECDSA" THEN 2 + (n % 2) ELSE 4
  IN  [i \in 1..len |-> (151 * n + 89 * i) % 256]

Issue(issued, pair, alg, message) ==
  [pair |-> pair, scheme |-> AlgorithmScheme(alg), digest |-> "SHA256", msg |-> message,
   sig |-> SignatureBytes(Cardinality(issued) + 1, AlgorithmScheme(alg))]

\* RSASSA-PKCS1-v1_5 is deterministic: the same key and message give the same
\* signature again.  ECDSA and PSS signatures are randomised.
IssuedBefore(issued, pair, alg, message) ==
  {r \in issued : /\ alg = RSASSA_PKCS1_V1_5_SHA_256
                  /\ r.pair = pair /\ r.scheme = "PKCS1" /\ r.msg = message}

\* What the service answers to a SignCommand when nothing fails on the way.
KmsSign(keyStore, issued, command) ==
  LET pair == keyStore[command.KeyId] IN
  IF pair = 0
    THEN [kind |-> "throw", error |-> Error("NotFoundException"), record |-> None]
  ELSE IF \/ command.SigningAlgorithm \notin SigningAlgorithmSpec
          \/ AlgorithmKeySpec(command.SigningAlgorithm) # KeySpecOf(pair)
    THEN [kind |-> "throw", error |-> Error("InvalidKeyUsageException"), record |-> None]
  ELSE LET before == IssuedBefore(issued, pair, command.SigningAlgorithm, command.Message)
           rec == IF before # {} THEN CHOOSE r \in before : TRUE
                  ELSE Issue(issued, pair, command.SigningAlgorithm, command.Message)
       IN  [kind |-> "ok", Signature |-> Some(rec.sig), record |-> Some(rec)]

\* What the service answers to a GetPublicKeyCommand when nothing fails.
KmsGetPublicKey(keyStore, command) ==
  LET pair == keyStore[command.KeyId] IN
  IF pair = 0
    THEN [kind |-> "throw", error |-> Error("NotFoundException")]
    ELSE [kind |-> "ok", PublicKey |-> Some(PublicKeyDer(pair))]

\* Failures of the call itself: a transport error, a denied request, a
\* rejection with a value that is no Error.
CallFailures == { Error("AccessDeniedException"), Thrown("socket closed") }

\* The key a PEM text holds: 0 when it does not parse to a known key.
ParsePublicKey(pem) ==
  LET n == Len(pem)
      h == Len(PemHeader)
      f == Len(PemFooter)
      framed == /\ n >= h + f + 2
                /\ SubSeq(pem, 1, h + 1) = PemHeader \o << "\n" >>
                /\ SubSeq(pem, n - f, n) = << "\n" >> \o PemFooter
      body == SubSeq(pem, h + 2, n - f - 1)
      text == SelectSeq(body, LAMBDA c : c # "\n")
      der  == fromBase64(text)
  IN  IF framed /\ (\A i \in 1..Len(text) : unbase64(text[i]) >= 0 \/ text[i] = "=")
         /\ (\E p \in KeyPairs : PublicKeyDer(p) = der)
      THEN CHOOSE p \in KeyPairs : PublicKeyDer(p) = der
      ELSE 0

\* The digest crypto.createVerify(name) uses: 'RSA-SHA256' is a signature
\* algorithm name that stands for its digest, 'sha256' is the digest itself.
NodeDigest(name) ==
  CASE name = "RSA-SHA256" -> "SHA256"
    [] name = "sha256" -> "SHA256"
    [] OTHER -> "invalid"

\* crypto.createVerify(name).update(message).verify(pem, signature): the key
\* decides the scheme (PKCS#1 v1.5 padding for an RSA key, ECDSA for an EC key).
CryptoVerify(issued, name, message, pem, signature) ==
  LET pair == ParsePublicKey(pem) IN
  IF NodeDigest(name) = "invalid"
    THEN [kind |-> "throw", error |-> Error("Invalid digest: " \o name)]
  ELSE IF pair = 0
    THEN [kind |-> "throw", error |-> Error("error:1E08010C:DECODER routines::unsupported")]
  ELSE [kind |-> "return",
        value |-> \E r \in issued :
                    /\ r.pair = pair
                    /\ r.scheme = (IF KeySpecOf(pair) = "RSA_2048" THEN "PKCS1" ELSE "ECDSA")
                    /\ r.digest = NodeDigest(name)
                    /\ r.msg = message
                    /\ r.sig = signature]

(***************************************************************************)
(* FDC3AWSKMSSigner.                                                       *)
(***************************************************************************)
\* (A variant that names the ECDSA signature algorithm, which createVerify
\* does not accept as a digest.)
getNodeAlgorithmSignatureNames(kmsAlgorithm) ==
  CASE kmsAlgorithm = "RSASSA_PKCS1_V1_5_SHA_256" -> [kind |-> "return", value |-> "RSA-SHA256"]
    [] kmsAlgorithm = "ECDSA_SHA_256" -> [kind |-> "return", value |-> "ecdsa-with-SHA256"]
    [] OTHER -> [kind |-> "throw", error |-> Error("Unsupported algorithm: " \o kmsAlgorithm)]

\* (A variant whose default branch falls back to the bare digest.)
getNodeAlgorithmWithFallback(kmsAlgorithm) ==
  CASE kmsAlgorithm = "RSASSA_PKCS1_V1_5_SHA_256" -> [kind |-> "return", value |-> "RSA-SHA256"]
    [] OTHER -> [kind |-> "return", value |-> "sha256"]

\* getNodeAlgorithm: the Node.js name, or the thrown Error.
getNodeAlgorithm(kmsAlgorithm) ==
  CASE kmsAlgorithm = "RSASSA_PKCS1_V1_5_SHA_256" -> [kind |-> "return", value |-> "RSA-SHA256"]
    [] kmsAlgorithm = "ECDSA_SHA_256" -> [kind |-> "return", value |-> "sha256"]
    [] OTHER -> [kind |-> "throw", error |-> Error("Unsupported algorithm: " \o kmsAlgorithm)]

\* The default value of sign's parameter algorithm.
DefaultAlgorithm == RSASSA_PKCS1_V1_5_SHA_256

\* sign, up to the await: the SignCommand sent to the service.
signCommand(keyId, context, algorithm) ==
  [KeyId |-> keyId,
   Message |-> Utf8(canonicalizeContext(context)),
   MessageType |-> "RAW",
   SigningAlgorithm |-> algorithm]

\* (A variant that returns the key-sorted copy.)
signBodySortedCopy(keyId, context, algorithm, signResult, timestamp) ==
  IF signResult.kind = "throw" THEN [kind |-> "throw", error |-> signResult.error]
  ELSE IF ~IsSome(signResult.Signature)
    THEN [kind |-> "throw", error |-> Error("KMS signing failed: No signature returned")]
  ELSE [kind |-> "return",
        value |-> [context |-> sortKeys(context),
                   signature |-> toBase64(The(signResult.Signature)),
                   keyId |-> keyId,
                   timestamp |-> timestamp,
                   algorithm |-> algorithm]]

\* sign, the body of its try block after the await.
signBody(keyId, context, algorithm, signResult, timestamp) ==
  IF signResult.kind = "throw" THEN [kind |-> "throw", error |-> signResult.error]
  ELSE IF ~IsSome(signResult.Signature)
    THEN [kind |-> "throw", error |-> Error("KMS signing failed: No signature returned")]
  ELSE [kind |-> "return",
        value |-> [context |-> context,
                   signature |-> toBase64(The(signResult.Signature)),
                   keyId |-> keyId,
                   timestamp |-> timestamp,
                   algorithm |-> algorithm]]

\* (A variant whose catch clause drops the cause.)
signDroppingCause(keyId, context, algorithm, signResult, timestamp) ==
  LET body == signBody(keyId, context, algorithm, signResult, timestamp) IN
  IF body.kind = "throw"
    THEN [kind |-> "throw", error |-> Error("Failed to sign FDC3 context")]
    ELSE body

\* sign after the await: its catch clause wraps whatever was thrown.
sign(keyId, context, algorithm, signResult, timestamp) ==
  LET body == signBody(keyId, context, algorithm, signResult, timestamp) IN
  IF body.kind = "throw"
    THEN [kind |-> "throw",
          error |-> Error("Failed to sign FDC3 context: " \o ErrorText(body.error))]
    ELSE body

\* (A variant that asks for the engine's own key.)
getPublicKeyCommandOwnKey(keyId, signedContext) == [KeyId |-> keyId]

\* verify, up to the await: the GetPublicKeyCommand sent to the service.
getPublicKeyCommand(keyId, signedContext) == [KeyId |-> signedContext.keyId]

\* (A variant with another wording.)
NoPublicKeyResultReworded ==
  [isValid |-> FALSE, context |-> None, error |-> Some("public key unavailable")]

\* verify's early return when the response carries no PublicKey.
NoPublicKeyResult ==
  [isValid |-> FALSE, context |-> None,
   error |-> Some("Could not retrieve public key from KMS")]

\* (A variant that hands the context back whatever the verifier returned.)
VerificationResultWithContext(isValid, signedContext) ==
  [isValid |-> isValid,
   context |-> Some(signedContext.context),
   error |-> IF isValid THEN None ELSE Some("Signature verification failed")]

\* The result verify builds from what the verifier returned.
VerificationResult(isValid, signedContext) ==
  [isValid |-> isValid,
   context |-> IF isValid THEN Some(signedContext.context) ELSE None,
   error |-> IF isValid THEN None ELSE Some("Signature verification failed")]

\* (A variant that writes the context as it is.)
verifyMessageUnsorted(signedContext) == Utf8(JSONStringify(signedContext.context))

\* (A variant that takes the timestamp into the message.)
verifyMessageWithTimestamp(signedContext) ==
  Utf8(canonicalizeContext(signedContext.context) \o NumberToString(signedContext.timestamp))

\* verify: the message handed to the verifier.
verifyMessage(signedContext) == Utf8(canonicalizeContext(signedContext.context))

\* (A variant that maps the algorithm before it looks at the response.)
verifyBodyAlgorithmFirst(issued, signedContext, publicKeyResult) ==
  LET nodeAlg == getNodeAlgorithm(signedContext.algorithm) IN
  IF publicKeyResult.kind = "throw" THEN [kind |-> "throw", error |-> publicKeyResult.error]
  ELSE IF nodeAlg.kind = "throw" THEN nodeAlg
  ELSE IF ~IsSome(publicKeyResult.PublicKey)
    THEN [kind |-> "return", value |-> NoPublicKeyResult]
  ELSE LET message      == verifyMessage(signedContext)
           signature    == fromBase64(signedContext.signature)
           publicKeyPem == derToPem(The(publicKeyResult.PublicKey))
           verified     == CryptoVerify(issued, nodeAlg.value, message, publicKeyPem, signature)
       IN  IF verified.kind = "throw" THEN verified
           ELSE [kind |-> "return",
                 value |-> VerificationResult(verified.value, signedContext)]

\* verify, the body of its try block after the await.
verifyBody(issued, signedContext, publicKeyResult) ==
  IF publicKeyResult.kind = "throw" THEN [kind |-> "throw", error |-> publicKeyResult.error]
  ELSE IF ~IsSome(publicKeyResult.PublicKey)
    THEN [kind |-> "return", value |-> NoPublicKeyResult]
  ELSE LET message      == verifyMessage(signedContext)
           signature    == fromBase64(signedContext.signature)
           publicKeyPem == derToPem(The(publicKeyResult.PublicKey))
           nodeAlg      == getNodeAlgorithm(signedContext.algorithm)
           verified     == CryptoVerify(issued, nodeAlg.value, message, publicKeyPem, signature)
       IN  IF nodeAlg.kind = "throw" THEN nodeAlg
           ELSE IF verified.kind = "throw" THEN verified
           ELSE [kind |-> "return",
                 value |-> VerificationResult(verified.value, signedContext)]

\* The steps verify has completed after its await by the time it ends: none
\* when no PublicKey came; canonicalizeContext and derToPem before
\* getNodeAlgorithm, which may throw.
verifySteps(signedContext, publicKeyResult) ==
  IF publicKeyResult.kind = "throw" \/ ~IsSome(publicKeyResult.PublicKey)
    THEN {}
  ELSE IF getNodeAlgorithm(signedContext.algorithm).kind = "throw"
    THEN {"canonicalizeContext", "derToPem"}
  ELSE {"canonicalizeContext", "derToPem", "getNodeAlgorithm"}

\* (A variant without the catch clause.)
verifyWithoutCatch(issued, signedContext, publicKeyResult) ==
  verifyBody(issued, signedContext, publicKeyResult)

\* verify after the await: its catch clause turns whatever was thrown into a result.
verify(issued, signedContext, publicKeyResult) ==
  LET body == verifyBody(issued, signedContext, publicKeyResult) IN
  IF body.kind = "throw"
    THEN [kind |-> "return",
          value |-> [isValid |-> FALSE, context |-> None,
                     error |-> Some("Verification error: " \o ErrorText(body.error))]]
    ELSE body

(***************************************************************************)
(* The callers: the contexts they sign and what may happen to an envelope  *)
(* between sign and verify.                                                *)
(***************************************************************************)
\* { type: 'fdc3.instrument', id: { ticker: 'AAPL' } }
InstrumentContext ==
  Obj(<< Prop(<< "t", "y", "p", "e" >>, Str(<< "f", "d", "c", "3", ".", "i", "n", "s", "t", "r", "u", "m", "e", "n", "t" >>)),
         Prop(<< "i", "d" >>, Obj(<< Prop(<< "t", "i", "c", "k", "e", "r" >>, Str(<< "A", "A", "P", "L" >>)) >>)) >>)

\* { type: 'fdc3.order', qty: -5, '10': 'x"y', '7': [null, { b: true, a: 1 }] },
\* whose own keys are enumerated '7', '10', 'type', 'qty'.
OrderContext ==
  Obj(<< Prop(<< "7" >>, Arr(<< Null, Obj(<< Prop(<< "b" >>, Bool(TRUE)),
                                            Prop(<< "a" >>, Num(1)) >>) >>)),
         Prop(<< "1", "0" >>, Str(<< "x", "\"", "y" >>)),
         Prop(<< "t", "y", "p", "e" >>, Str(<< "f", "d", "c", "3", ".", "o", "r", "d", "e", "r" >>)),
         Prop(<< "q", "t", "y" >>, Num(-5)) >>)

Contexts == {InstrumentContext, OrderContext}

RECURSIVE Reorderings(_)
RECURSIVE InsertedInAnyOrder(_)
\* The property lists that come of creating the given properties in any
\* order, each with any of the given forms of its value.
InsertedInAnyOrder(props) ==
  IF props = {} THEN {<< >>}
  ELSE UNION {{DefineOwn(ps, p.k, w) : ps \in InsertedInAnyOrder(props \ {p}), w \in p.vs} :
                p \in props}

\* The objects with the keys and values of x, the keys created in any order
\* at every level (an object inside an array included).
Reorderings(x) ==
  IF x.t = "obj" THEN
    {Obj(ps) : ps \in InsertedInAnyOrder({[k |-> x.v[i].k, vs |-> Reorderings(x.v[i].v)] :
                                            i \in 1..Len(x.v)})}
  ELSE IF x.t = "arr" THEN
    {Arr(s) : s \in {t \in [1..Len(x.v) -> UNION {Reorderings(x.v[i]) : i \in 1..Len(x.v)}] :
                       \A i \in 1..Len(x.v) : t[i] \in Reorderings(x.v[i])}}
  ELSE {x}

ReorderedContexts == Reorderings(OrderContext)

\* The keys and values an edit may bring in.
EditKeys == {<< "a" >>, << "3" >>, ProtoKey}
EditValues == {Null, Num(1), Str(<< "x" >>)}

RemoveAt(seq, i) == SubSeq(seq, 1, i - 1) \o SubSeq(seq, i + 1, Len(seq))

RECURSIVE Edits(_)
\* The values one edit away from x: a key added, removed or renamed, an array
\* element added or removed, a scalar replaced, at any nesting level.  An
\* added own property is placed as JSON.parse (CreateDataProperty) places it.
Edits(x) ==
  IF x.t = "obj" THEN
    LET ps == x.v
        fresh == {k \in EditKeys : ~HasOwn(ps, k)}
    IN  {Obj(DefineOwn(ps, k, w)) : k \in fresh, w \in EditValues}
        \cup {Obj(RemoveAt(ps, i)) : i \in 1..Len(ps)}
        \cup {Obj(DefineOwn(RemoveAt(ps, i), k, ps[i].v)) : i \in 1..Len(ps), k \in fresh}
        \cup UNION {{Obj([ps EXCEPT ![i] = Prop(ps[i].k, w)]) : w \in Edits(ps[i].v)} :
                      i \in 1..Len(ps)}
  ELSE IF x.t = "arr" THEN
    {Arr(Append(x.v, w)) : w \in EditValues}
    \cup {Arr(RemoveAt(x.v, i)) : i \in 1..Len(x.v)}
    \cup UNION {{Arr([x.v EXCEPT ![i] = w]) : w \in Edits(x.v[i])} : i \in 1..Len(x.v)}
  ELSE EditValues \ {x}

\* The characters a signature character may be replaced by.
ReplacementChars ==
  {Base64Alphabet[i] : i \in 1..64} \cup {"-", "_", "=", " ", "!"}

\* The algorithm values an envelope may be given.
AlgorithmValues == SigningAlgorithmSpec \cup {"HMAC_SHA_256"}

(***************************************************************************)
(* The state.                                                              *)
(***************************************************************************)
MaxIssued == 2
MaxClock == 1
MaxCalls == 2

Engines == {"trading", "risk"}

\* The applications built on the signer: the integration apps (TradingApp,
\* DemoFDC3App, the useFDC3WithKMS hook, RiskManagementApp, SecureFDC3App),
\* the demo server and its browser client (FDC3DemoApp).
Apps == {"TradingApp", "DemoFDC3App", "useFDC3WithKMS", "RiskManagementApp",
         "SecureFDC3App", "server", "FDC3DemoApp"}

\* An application as constructed: not initialized, its flag (isSigningEnabled
\* of the apps, isKmsReady of the demo server and client) false, no call of
\* its own in progress, nothing signed, verified, processed or received.
NewApp ==
  [pc |-> "new", enabled |-> FALSE, call |-> 0, signed |-> None, verification |-> None,
   contexts |-> << >>]

VARIABLES
  keyStore,   \* the key service: key identifier -> key pair, 0 when it names no key
  issued,     \* the signatures the key service has issued
  config,     \* engine -> its public config (the key identifier)
  calls,      \* call number -> the sign or verify call in progress
  envelopes,  \* the envelopes sign has returned and the callers kept
  now,        \* the clock
  apps        \* application -> its state

vars == << keyStore, issued, config, calls, envelopes, now, apps >>

Init ==
  /\ keyStore = [k \in KeyIds |->
                   CASE k = "alias/trading-key" -> 1
                     [] k = "alias/risk-key" -> 2
                     [] k = "alias/settlement-key" -> 3
                     [] OTHER -> 0]
  /\ issued = {}
  /\ config = [e \in Engines |->
                 [keyId |-> IF e = "trading" THEN "alias/trading-key" ELSE "alias/risk-key"]]
  /\ calls = << >>
  /\ envelopes = {}
  /\ now = 0
  /\ apps = [a \in Apps |-> NewApp]

Idle == DOMAIN calls = {}

\* The number a new call gets: the least one not in use.
NewCall == CHOOSE c \in 1..(Cardinality(DOMAIN calls) + 1) : c \notin DOMAIN calls

Awaiting(c, op) == c \in DOMAIN calls /\ calls[c].op = op /\ calls[c].pc = "await"
Resuming(c, op) == c \in DOMAIN calls /\ calls[c].op = op /\ calls[c].pc = "resume"
Done(c, op) == c \in DOMAIN calls /\ calls[c].op = op /\ calls[c].pc = "done"

\* Signature strings that are no base64 of a signature: the empty string and
\* one with no character of the alphabet.
MalformedSignatures == {<< >>, << "!", "?" >>}

\* What became of an envelope since sign returned it.  Nothing, or one field
\* other than its context was replaced as a whole:
FieldTamperings(signed) ==
  {[kind |-> "none", signedContext |-> signed]}
  \cup {[kind |-> "algorithm", signedContext |-> [signed EXCEPT !.algorithm = a]] :
          a \in AlgorithmValues \ {signed.algorithm}}
  \cup {[kind |-> "keyId", signedContext |-> [signed EXCEPT !.keyId = k]] :
          k \in KeyIds \ {signed.keyId}}
  \cup {[kind |-> "timestamp", signedContext |-> [signed EXCEPT !.timestamp = @ + 1]]}
  \cup {[kind |-> "malformed", signedContext |-> [signed EXCEPT !.signature = g]] :
          g \in MalformedSignatures}

\* or its context was edited, or one character of its signature was replaced.
ContentTamperings(signed) ==
  {[kind |-> "context", signedContext |-> [signed EXCEPT !.context = x]] :
     x \in Edits(signed.context)}
  \cup UNION {{[kind |-> "signature",
                 signedContext |-> [signed EXCEPT !.signature = [@ EXCEPT ![i] = ch]]] :
                  ch \in ReplacementChars \ {signed.signature[i]}} :
                i \in 1..Len(signed.signature)}

(***************************************************************************)
(* The actions.                                                            *)
(***************************************************************************)
\* A caller calls sign(context, algorithm), or sign(context) when omitted:
\* sign runs to its await, the one SignCommand it sends is on its way.  The
\* call holds the caller's object (context), here next to the value it had
\* when it was passed and the algorithm argument as it was given.
SignCallRecord(e, context, algorithm, omitted) ==
  LET alg == IF omitted THEN DefaultAlgorithm ELSE algorithm IN
  [op |-> "sign", engine |-> e, pc |-> "await",
   passed |-> context,
   requested |-> IF omitted THEN None ELSE Some(algorithm),
   context |-> sortKeysArgument(context), algorithm |-> alg,
   command |-> signCommand(config[e].keyId, context, alg),
   sent |-> 1]

SignCall(e, context, algorithm, omitted) ==
  /\ Cardinality(issued) < MaxIssued
  /\ calls' = NewCall :> SignCallRecord(e, context, algorithm, omitted) @@ calls
  /\ UNCHANGED << keyStore, issued, config, envelopes, now, apps >>

\* The key service answers a SignCommand (the call notes the clock value at
\* which the answer arrived).
KmsSignResponds(c) ==
  /\ Awaiting(c, "sign")
  /\ LET r == KmsSign(keyStore, issued, calls[c].command) IN
     /\ calls' = [calls EXCEPT ![c] =
                    [pc |-> "resume", response |-> r, arrived |-> now] @@ @]
     /\ issued' = IF r.kind = "ok" THEN issued \cup {The(r.record)} ELSE issued
  /\ UNCHANGED << keyStore, config, envelopes, now, apps >>

\* The SignCommand fails on the way, or its response carries no Signature
\* member, or one of no bytes (an empty Uint8Array).
KmsSignFails(c) ==
  /\ Awaiting(c, "sign")
  /\ \E r \in {[kind |-> "throw", error |-> f, record |-> None] : f \in CallFailures}
              \cup {[kind |-> "ok", Signature |-> None, record |-> None],
                    [kind |-> "ok", Signature |-> Some(<< >>), record |-> None]} :
       calls' = [calls EXCEPT ![c] =
                   [pc |-> "resume", response |-> r, arrived |-> now] @@ @]
  /\ UNCHANGED << keyStore, issued, config, envelopes, now, apps >>

\* (A variant that keeps the context in a field of the engine while it awaits:
\* it resumes with the context of another sign call of the engine, if any.)
SignResumesSharedContext(c) ==
  /\ Resuming(c, "sign")
  /\ LET call == calls[c]
         others == {d \in DOMAIN calls \ {c} :
                      calls[d].op = "sign" /\ calls[d].engine = call.engine}
         context == IF others = {} THEN call.context
                    ELSE calls[CHOOSE d \in others : TRUE].context
         out == sign(config[call.engine].keyId, context, call.algorithm, call.response, now)
     IN  calls' = [calls EXCEPT ![c] = [pc |-> "done", outcome |-> out] @@ @]
  /\ UNCHANGED << keyStore, issued, config, envelopes, now, apps >>

\* (A variant that sends the SignCommand once more when it was rejected.)
SignResumesRetrying(c) ==
  /\ Resuming(c, "sign")
  /\ LET call == calls[c]
         out == sign(config[call.engine].keyId, call.context, call.algorithm,
                     call.response, now)
     IN  calls' = [calls EXCEPT ![c] =
                     IF call.response.kind = "throw" /\ call.sent < 2
                     THEN [pc |-> "await", sent |-> call.sent + 1] @@ @
                     ELSE [pc |-> "done", outcome |-> out] @@ @]
  /\ UNCHANGED << keyStore, issued, config, envelopes, now, apps >>

\* (A variant that stamps the envelope with the clock value of construction.)
SignResumesEarlyClock(c) ==
  /\ Resuming(c, "sign")
  /\ LET call == calls[c]
         out == sign(config[call.engine].keyId, call.context, call.algorithm,
                     call.response, 0)
     IN  calls' = [calls EXCEPT ![c] = [pc |-> "done", outcome |-> out] @@ @]
  /\ UNCHANGED << keyStore, issued, config, envelopes, now, apps >>

\* sign resumes after its await and completes (Date.now() reads the clock).
SignResumes(c) ==
  /\ Resuming(c, "sign")
  /\ LET call == calls[c]
         out == sign(config[call.engine].keyId, call.context, call.algorithm,
                     call.response, now)
     IN  calls' = [calls EXCEPT ![c] = [pc |-> "done", outcome |-> out] @@ @]
  /\ UNCHANGED << keyStore, issued, config, envelopes, now, apps >>

\* A caller calls verify on an envelope it kept, as it is or tampered with:
\* verify runs to its await, the one GetPublicKeyCommand it sends is on its
\* way.  The call holds the caller's object (signedContext), here next to the
\* value it had when it was passed.
VerifyCallRecord(e, kept, tampering) ==
  [op |-> "verify", engine |-> e, pc |-> "await",
   passed |-> tampering.signedContext,
   signedContext |-> tampering.signedContext,
   kept |-> kept, tamper |-> tampering.kind,
   command |-> getPublicKeyCommand(config[e].keyId, tampering.signedContext),
   sent |-> 1]

VerifyCall(e, kept, tampering) ==
  /\ kept \in envelopes
  /\ calls' = NewCall :> VerifyCallRecord(e, kept, tampering) @@ calls
  /\ UNCHANGED << keyStore, issued, config, envelopes, now, apps >>

\* The key service answers a GetPublicKeyCommand.
KmsGetPublicKeyResponds(c) ==
  /\ Awaiting(c, "verify")
  /\ calls' = [calls EXCEPT ![c] = [pc |-> "resume",
                                    response |-> KmsGetPublicKey(keyStore, calls[c].command)]
                                   @@ @]
  /\ UNCHANGED << keyStore, issued, config, envelopes, now, apps >>

\* The GetPublicKeyCommand fails on the way, or its response carries no
\* PublicKey, or bytes that are no key.
KmsGetPublicKeyFails(c) ==
  /\ Awaiting(c, "verify")
  /\ \E r \in {[kind |-> "throw", error |-> f] : f \in CallFailures}
              \cup {[kind |-> "ok", PublicKey |-> None],
                    [kind |-> "ok", PublicKey |-> Some(<< 48, 0 >>)]} :
       calls' = [calls EXCEPT ![c] = [pc |-> "resume", response |-> r] @@ @]
  /\ UNCHANGED << keyStore, issued, config, envelopes, now, apps >>

\* (A variant that keeps the key of an envelope it found valid before.)
VerifyResumesCachedKey(c) ==
  /\ Resuming(c, "verify")
  /\ LET call == calls[c]
         response == IF call.kept.verified
                     THEN [kind |-> "ok",
                           PublicKey |-> Some(PublicKeyDer(call.kept.record.pair))]
                     ELSE call.response
     IN  calls' = [calls EXCEPT ![c] =
                     [pc |-> "done",
                      outcome |-> verify(issued, call.signedContext, response)]
                     @@ @]
  /\ UNCHANGED << keyStore, issued, config, envelopes, now, apps >>

\* verify resumes after its await and completes; when a PublicKey came, the
\* envelope's context goes through canonicalizeContext.
VerifyResumes(c) ==
  /\ Resuming(c, "verify")
  /\ LET call == calls[c]
         canonicalized == call.response.kind = "ok" /\ IsSome(call.response.PublicKey)
         after == IF canonicalized
                  THEN [call.signedContext EXCEPT !.context = sortKeysArgument(@)]
                  ELSE call.signedContext
     IN  calls' = [calls EXCEPT ![c] =
                     [pc |-> "done", signedContext |-> after,
                      steps |-> verifySteps(after, call.response),
                      outcome |-> verify(issued, after, call.response)]
                     @@ @]
  /\ UNCHANGED << keyStore, issued, config, envelopes, now, apps >>

\* The caller takes the outcome of a completed call.  It keeps the first
\* envelope sign returns with a signature the service issued (with, for the
\* record, the context it passed, the command that was sent, what the
\* service issued, and whether a verify has found the envelope valid).
Collect(c) ==
  /\ c \in DOMAIN calls
  /\ calls[c].pc = "done"
  /\ calls' = [d \in DOMAIN calls \ {c} |-> calls[d]]
  /\ envelopes' =
       IF /\ calls[c].op = "sign" /\ calls[c].outcome.kind = "return"
          /\ IsSome(calls[c].response.record) /\ envelopes = {}
       THEN {[signed |-> calls[c].outcome.value,
              context |-> calls[c].context,
              command |-> calls[c].command,
              record |-> The(calls[c].response.record),
              verified |-> FALSE]}
       ELSE IF calls[c].op = "verify" /\ calls[c].outcome.value.isValid
       THEN {[kept EXCEPT !.verified = TRUE] : kept \in envelopes}
       ELSE envelopes
  /\ UNCHANGED << keyStore, issued, config, now, apps >>

\* Time passes.
Tick ==
  /\ now < MaxClock
  /\ now' = now + 1
  /\ UNCHANGED << keyStore, issued, config, calls, envelopes, apps >>

\* The steps every call takes once it is made.
CallSteps ==
  \/ \E c \in DOMAIN calls : KmsSignResponds(c)
  \/ \E c \in DOMAIN calls : SignResumes(c)
  \/ \E c \in DOMAIN calls : KmsGetPublicKeyResponds(c)
  \/ \E c \in DOMAIN calls : VerifyResumes(c)
  \/ \E c \in DOMAIN calls : Collect(c)

SignCalls ==
  /\ Idle
  /\ \E e \in Engines, context \in Contexts, algorithm \in SigningAlgorithmSpec,
        omitted \in BOOLEAN :
       /\ omitted => algorithm = DefaultAlgorithm
       /\ SignCall(e, context, algorithm, omitted)

\* One call at a time, against a key service that may fail; an envelope is
\* verified as it was returned or with one of its other fields replaced.
Next ==
  \/ SignCalls
  \/ Idle /\ \E e \in Engines, kept \in envelopes :
               \E tampering \in FieldTamperings(kept.signed) : VerifyCall(e, kept, tampering)
  \/ \E c \in DOMAIN calls : KmsSignFails(c)
  \/ \E c \in DOMAIN calls : KmsGetPublicKeyFails(c)
  \/ CallSteps

Spec == Init /\ [][Next]_vars

\* One call at a time, against a key service that answers; the first envelope
\* signed reaches the risk application with its context edited or with one
\* character of its signature replaced.
NextTamper ==
  \/ issued = {} /\ SignCalls
  \/ Idle /\ \E kept \in envelopes :
               \E tampering \in ContentTamperings(kept.signed) :
                 VerifyCall("risk", kept, tampering)
  \/ CallSteps

SpecTamper == Init /\ [][NextTamper]_vars

\* The envelope as it is, or naming another key.
KeyTamperings(signed) ==
  {t \in FieldTamperings(signed) : t.kind \in {"none", "keyId"}}

\* The envelope as the application has it: the one that signed it has it as
\* sign returned it, another one as it is or naming a key the service does
\* not hold.
ReceivedBy(e, kept) ==
  {t \in KeyTamperings(kept.signed) :
     t.kind = "keyId" => (e # "trading" /\ t.signedContext.keyId = "alias/retired-key")}

\* Calls made while others are in flight: the trading application signs, and
\* both applications verify the envelope kept.  The key service answers every
\* request (it rejects those that name no key).
NextConcurrent ==
  \/ /\ Cardinality(DOMAIN calls) < MaxCalls
     /\ \E context \in Contexts : SignCall("trading", context, DefaultAlgorithm, TRUE)
  \/ /\ Cardinality(DOMAIN calls) < MaxCalls
     /\ \E e \in Engines, kept \in envelopes :
          \E tampering \in ReceivedBy(e, kept) : VerifyCall(e, kept, tampering)
  \/ CallSteps

SpecConcurrent == Init /\ [][NextConcurrent]_vars

\* The steps of a sign call.
SignSteps ==
  \/ \E c \in DOMAIN calls : KmsSignResponds(c)
  \/ \E c \in DOMAIN calls : SignResumes(c)
  \/ \E c \in DOMAIN calls : Collect(c)

\* Sign calls in flight together, for the order context with its keys created
\* in any order.
NextCanonical ==
  \/ /\ Cardinality(DOMAIN calls) < MaxCalls
     /\ \E context \in ReorderedContexts : SignCall("trading", context, DefaultAlgorithm, TRUE)
  \/ SignSteps

SpecCanonical == Init /\ [][NextCanonical]_vars

\* The key an identifier names is replaced by another key pair at the
\* service, or removed.
ReplaceKey(k, pair) ==
  /\ keyStore[k] # pair
  /\ keyStore' = [keyStore EXCEPT ![k] = pair]
  /\ UNCHANGED << issued, config, calls, envelopes, now, apps >>

\* One call at a time against a key service where the key of the envelope
\* changes: the first envelope signed is verified again and again, as it is
\* or naming another key.
NextRotation ==
  \/ issued = {} /\ SignCalls
  \/ Idle /\ \E e \in Engines, kept \in envelopes :
               \E tampering \in KeyTamperings(kept.signed) : VerifyCall(e, kept, tampering)
  \/ \E kept \in envelopes, pair \in KeyPairs \cup {0} : ReplaceKey(kept.signed.keyId, pair)
  \/ \E c \in DOMAIN calls : KmsGetPublicKeyFails(c)
  \/ CallSteps

SpecRotation == Init /\ [][NextRotation]_vars

(***************************************************************************)
(* Properties.                                                             *)
(***************************************************************************)
VerifyDone == {c \in DOMAIN calls : Done(c, "verify")}
SignDone == {c \in DOMAIN calls : Done(c, "sign")}

SupportedAlgorithms == {RSASSA_PKCS1_V1_5_SHA_256, ECDSA_SHA_256}

\* The key service answered the call with the public key of this key pair.
AnsweredWithKeyOf(c, pair) ==
  /\ calls[c].response.kind = "ok"
  /\ calls[c].response.PublicKey = Some(PublicKeyDer(pair))

\* The key service answered the call with the key its identifier names.
AnsweredWithNamedKey(c) ==
  /\ keyStore[calls[c].signedContext.keyId] # 0
  /\ AnsweredWithKeyOf(c, keyStore[calls[c].signedContext.keyId])

\* C1: round-trip integrity.  When verify is given an envelope exactly as sign
\* returned it, signed under a supported algorithm, and the key service
\* answers with the public key of the key that signed it (the key the
\* envelope names), verify returns isValid = true and the very context that
\* was passed to sign.
RoundTripIntegrity ==
  \A c \in VerifyDone :
    LET call == calls[c] IN
    ( /\ call.tamper = "none"
      /\ call.kept.signed.algorithm \in SupportedAlgorithms
      /\ call.kept.signed.keyId = call.kept.command.KeyId
      /\ AnsweredWithKeyOf(c, call.kept.record.pair) )
    => /\ call.outcome.kind = "return"
       /\ call.outcome.value.isValid
       /\ call.outcome.value.context = Some(call.kept.context)

\* A verify of an untouched ECDSA envelope of the order context has completed
\* with the key service's answer, and returned isValid = true.
RoundTripWitness ==
  \E c \in VerifyDone :
    /\ calls[c].tamper = "none"
    /\ calls[c].kept.signed.algorithm = ECDSA_SHA_256
    /\ calls[c].kept.context = OrderContext
    /\ AnsweredWithKeyOf(c, calls[c].kept.record.pair)
    /\ calls[c].outcome.value.isValid

\* C2: payload tamper detection.  When the context of an envelope is edited
\* after signing (a key or value added, removed or altered at any level),
\* verify returns isValid = false.
PayloadTamperDetected ==
  \A c \in VerifyDone :
    calls[c].tamper = "context" => ~calls[c].outcome.value.isValid

\* C3: signature tamper detection.  When one character of an envelope's
\* base64 signature is replaced by a different character, verify returns
\* isValid = false.
SignatureTamperDetected ==
  \A c \in VerifyDone :
    calls[c].tamper = "signature" => ~calls[c].outcome.value.isValid

\* The envelope's signature was produced by the key service over the canonical
\* bytes of its context, with the key its keyId names, under its algorithm.
ProducedByService(signed) ==
  /\ signed.algorithm \in SigningAlgorithmSpec
  /\ keyStore[signed.keyId] # 0
  /\ \E r \in issued :
       /\ r.pair = keyStore[signed.keyId]
       /\ r.scheme = AlgorithmScheme(signed.algorithm)
       /\ r.msg = Utf8(canonicalizeContext(signed.context))
       /\ toBase64(r.sig) = signed.signature

\* C4: envelope validity invariant.  For an envelope that names a supported
\* algorithm, when the key service answers with the key the envelope names,
\* verify returns isValid = true if and only if the signature was produced by
\* the service over the canonical bytes of the context with that key under
\* the envelope's algorithm (so not when the algorithm field was replaced by
\* the other supported identifier).
EnvelopeValidityInvariant ==
  \A c \in VerifyDone :
    ( /\ calls[c].signedContext.algorithm \in SupportedAlgorithms
      /\ AnsweredWithNamedKey(c) )
    => (calls[c].outcome.value.isValid <=> ProducedByService(calls[c].signedContext))

\* C5: wrong-key rejection.  When the keyId of an envelope is replaced by the
\* identifier of another existing key (a different key pair), verify returns
\* isValid = false.
WrongKeyRejected ==
  \A c \in VerifyDone :
    LET call == calls[c] IN
    ( /\ call.tamper = "keyId"
      /\ keyStore[call.signedContext.keyId] \notin {0, call.kept.record.pair} )
    => /\ call.outcome.kind = "return"
       /\ ~call.outcome.value.isValid

\* The trading engine has verified an envelope it signed itself, whose keyId
\* was replaced by that of another RSA key, which the key service supplied:
\* the verifier rejected the signature.
WrongKeyWitness ==
  \E c \in VerifyDone :
    /\ calls[c].tamper = "keyId"
    /\ calls[c].engine = "trading"
    /\ calls[c].kept.record.pair = 1
    /\ calls[c].signedContext.keyId = "alias/settlement-key"
    /\ AnsweredWithNamedKey(c)
    /\ calls[c].outcome.value.error = Some("Signature verification failed")

\* C6: verify never raises.  Whatever the envelope and whatever the key
\* service and the local primitives do, verify completes by returning a
\* result; a result that is not valid carries an error.
VerifyNeverRaises ==
  \A c \in VerifyDone :
    /\ calls[c].outcome.kind = "return"
    /\ calls[c].outcome.value.isValid \in BOOLEAN
    /\ ~calls[c].outcome.value.isValid => IsSome(calls[c].outcome.value.error)

\* verify has completed on an envelope whose signature string is malformed,
\* the key service having supplied the key: it returned a result that is not
\* valid.
VerifyNeverRaisesWitness ==
  \E c \in VerifyDone :
    /\ calls[c].tamper = "malformed"
    /\ AnsweredWithNamedKey(c)
    /\ calls[c].outcome.kind = "return"
    /\ ~calls[c].outcome.value.isValid

\* C7: outcome shape.  In every result of verify the context is present exactly
\* when isValid is true, and is then the envelope's context; the error is
\* present exactly when isValid is false.
OutcomeShape ==
  \A c \in VerifyDone :
    LET result == calls[c].outcome.value IN
    /\ IsSome(result.context) <=> result.isValid
    /\ result.isValid => result.context = Some(calls[c].signedContext.context)
    /\ IsSome(result.error) <=> ~result.isValid

\* verify has returned a result that is not valid because the verifier
\* rejected the signature.
OutcomeShapeWitness ==
  \E c \in VerifyDone :
    /\ AnsweredWithNamedKey(c)
    /\ ~calls[c].outcome.value.isValid
    /\ calls[c].outcome.value.error = Some("Signature verification failed")

KeyUnavailable(c) ==
  \/ calls[c].response.kind = "throw"
  \/ calls[c].response.kind = "ok" /\ ~IsSome(calls[c].response.PublicKey)

\* C8, as claimed: unavailable key.  When the public-key fetch fails or returns
\* no key, verify returns isValid = false with the error 'Could not retrieve
\* public key from KMS'.
UnavailableKeyOneMessage ==
  \A c \in VerifyDone :
    KeyUnavailable(c)
    => /\ calls[c].outcome.kind = "return"
       /\ ~calls[c].outcome.value.isValid
       /\ calls[c].outcome.value.error = Some("Could not retrieve public key from KMS")

\* C8, amended: when the response carries no key, verify returns isValid =
\* false with the error 'Could not retrieve public key from KMS'; when the
\* fetch throws, verify returns isValid = false with the error 'Verification
\* error: ' followed by the message of what was thrown.  It raises in neither
\* case.
UnavailableKey ==
  \A c \in VerifyDone :
    KeyUnavailable(c)
    => /\ calls[c].outcome.kind = "return"
       /\ ~calls[c].outcome.value.isValid
       /\ ~IsSome(calls[c].outcome.value.context)
       /\ calls[c].outcome.value.error =
            IF calls[c].response.kind = "throw"
            THEN Some("Verification error: " \o ErrorText(calls[c].response.error))
            ELSE Some("Could not retrieve public key from KMS")

\* verify has completed on a response that carried no PublicKey.
UnavailableKeyWitness ==
  \E c \in VerifyDone :
    /\ calls[c].response.kind = "ok"
    /\ ~IsSome(calls[c].response.PublicKey)
    /\ ~calls[c].outcome.value.isValid

\* C9: unsupported algorithm.  Exactly the two identifiers
\* RSASSA_PKCS1_V1_5_SHA_256 and ECDSA_SHA_256 are mapped; verify of an envelope
\* with any other algorithm returns (it does not raise) a result that is not
\* valid, and when the key service supplied a public key the error names the
\* algorithm.
UnsupportedAlgorithm ==
  /\ \A a \in AlgorithmValues :
       getNodeAlgorithm(a).kind = "return" <=> a \in SupportedAlgorithms
  /\ \A c \in VerifyDone :
       LET call == calls[c] IN
       call.signedContext.algorithm \notin SupportedAlgorithms
       => /\ call.outcome.kind = "return"
          /\ ~call.outcome.value.isValid
          /\ (call.response.kind = "ok" /\ IsSome(call.response.PublicKey))
             => call.outcome.value.error =
                  Some("Verification error: Unsupported algorithm: "
                       \o call.signedContext.algorithm)

\* verify has completed on an envelope exactly as sign returned it under
\* RSASSA_PSS_SHA_256, with the key supplied by the key service.
UnsupportedAlgorithmWitness ==
  \E c \in VerifyDone :
    /\ calls[c].tamper = "none"
    /\ calls[c].signedContext.algorithm = RSASSA_PSS_SHA_256
    /\ AnsweredWithNamedKey(c)
    /\ ~calls[c].outcome.value.isValid

EnvelopeFields == {"context", "signature", "keyId", "timestamp", "algorithm"}

\* C10: sign is all-or-nothing.  When the key service call fails, sign throws
\* one Error whose message is 'Failed to sign FDC3 context: ' followed by the
\* message of the cause, and returns nothing; when sign returns, the key
\* service had returned a signature and the envelope has all five fields.
SignAllOrNothing ==
  \A c \in SignDone :
    LET call == calls[c] IN
    /\ call.outcome.kind \in {"return", "throw"}
    /\ call.response.kind = "throw"
       => /\ call.outcome.kind = "throw"
          /\ call.outcome.error =
               Error("Failed to sign FDC3 context: " \o ErrorText(call.response.error))
    /\ call.outcome.kind = "throw" => DOMAIN call.outcome = {"kind", "error"}
    /\ call.outcome.kind = "return"
       => /\ call.response.kind = "ok"
          /\ IsSome(call.response.Signature)
          /\ DOMAIN call.outcome.value = EnvelopeFields

\* sign has thrown after the key service rejected the SignCommand (the key
\* cannot sign under the algorithm asked for).
SignAllOrNothingWitness ==
  \E c \in SignDone :
    /\ calls[c].response.kind = "throw"
    /\ calls[c].response.error = Error("InvalidKeyUsageException")
    /\ calls[c].outcome.kind = "throw"

\* The response to the SignCommand carries no signature material: no
\* Signature member, or one of no bytes.
NoSignatureMaterial(response) ==
  /\ response.kind = "ok"
  /\ ~IsSome(response.Signature) \/ The(response.Signature) = << >>

\* C11: no signature material.  When the response to the SignCommand carries
\* no signature material, sign throws the wrapped Error 'Failed to sign FDC3
\* context: KMS signing failed: No signature returned' and returns no
\* envelope; every envelope sign returns has a signature that is not empty.
SignatureNeverEmpty ==
  \A c \in SignDone :
    /\ NoSignatureMaterial(calls[c].response)
       => /\ calls[c].outcome.kind = "throw"
          /\ calls[c].outcome.error =
               Error("Failed to sign FDC3 context: KMS signing failed: No signature returned")
    /\ calls[c].outcome.kind = "return" => calls[c].outcome.value.signature # << >>

\* C12: envelope contents.  On success sign returns an envelope whose context
\* is the object the caller passed (not the key-sorted copy), whose signature
\* is the base64 of exactly the bytes the service returned, whose keyId is the
\* engine's configured key identifier (the one the SignCommand named) and
\* whose algorithm is the one submitted to the service; when the algorithm is
\* omitted, RSASSA_PKCS1_V1_5_SHA_256 is submitted and recorded.
EnvelopeContents ==
  \A c \in SignDone :
    LET call == calls[c] IN
    /\ call.command.SigningAlgorithm =
         (IF IsSome(call.requested) THEN The(call.requested) ELSE RSASSA_PKCS1_V1_5_SHA_256)
    /\ call.outcome.kind = "return"
       => /\ call.outcome.value.context = call.passed
          /\ call.outcome.value.signature = toBase64(The(call.response.Signature))
          /\ fromBase64(call.outcome.value.signature) = The(call.response.Signature)
          /\ call.outcome.value.keyId = config[call.engine].keyId
          /\ call.outcome.value.keyId = call.command.KeyId
          /\ call.outcome.value.algorithm = call.command.SigningAlgorithm

\* sign(context), the algorithm omitted, has returned an envelope for the order
\* context, whose keys are not in sorted order.
EnvelopeContentsWitness ==
  \E c \in SignDone :
    /\ ~IsSome(calls[c].requested)
    /\ calls[c].passed = OrderContext
    /\ sortKeys(calls[c].passed) # calls[c].passed
    /\ calls[c].outcome.kind = "return"
    /\ calls[c].outcome.value.algorithm = RSASSA_PKCS1_V1_5_SHA_256
    /\ Len(calls[c].outcome.value.signature) > 0

\* C13: one algorithm table.  Every envelope sign returns has the algorithm
\* RSASSA_PKCS1_V1_5_SHA_256 or ECDSA_SHA_256; sign called with any other
\* algorithm returns no envelope.
SignUsesAlgorithmTable ==
  \A c \in SignDone :
    /\ calls[c].outcome.kind = "return"
       => calls[c].outcome.value.algorithm \in SupportedAlgorithms
    /\ calls[c].algorithm \notin SupportedAlgorithms => calls[c].outcome.kind = "throw"

Failed(call) ==
  IF call.op = "sign" THEN call.outcome.kind = "throw"
  ELSE /\ call.outcome.kind = "return"
       /\ ~call.outcome.value.isValid
       /\ IsSome(call.outcome.value.error)

RECURSIVE LexCanonical(_)
\* The text with, at every level, every key of a mapping in ascending
\* lexicographic order, the elements of an array in their order, and scalars
\* and null as JSON writes them.
LexCanonical(x) ==
  CASE x.t = "arr" ->
         << "[" >> \o Join([i \in 1..Len(x.v) |-> LexCanonical(x.v[i])], << "," >>) \o << "]" >>
    [] x.t = "obj" ->
         LET ks == ArraySort(ObjectKeys(x.v)) IN
         << "{" >>
         \o Join([i \in 1..Len(ks) |->
                    QuoteJSONString(ks[i]) \o << ":" >> \o LexCanonical(GetOwn(x.v, ks[i]))],
                 << "," >>)
         \o << "}" >>
    [] OTHER -> JSONStringify(x)

\* C20: canonical form.  The bytes sign submits for a context are those of the
\* text in which, at every nesting level (objects inside arrays included),
\* the keys appear in ascending lexicographic order, array elements in their
\* original order, and scalars and null unchanged.
CanonicalFormLexicographic ==
  \A c \in DOMAIN calls :
    calls[c].op = "sign"
    => calls[c].command.Message = Utf8(LexCanonical(calls[c].passed))

RECURSIVE SameUpToKeyOrder(_, _)
\* Two values with the same keys and values at every level, whatever the
\* order of the keys; arrays element by element.
SameUpToKeyOrder(a, b) ==
  IF a.t # b.t THEN FALSE
  ELSE IF a.t = "obj" THEN
    /\ Len(a.v) = Len(b.v)
    /\ {a.v[i].k : i \in 1..Len(a.v)} = {b.v[i].k : i \in 1..Len(b.v)}
    /\ \A i \in 1..Len(a.v) : SameUpToKeyOrder(a.v[i].v, GetOwn(b.v, a.v[i].k))
  ELSE IF a.t = "arr" THEN
    /\ Len(a.v) = Len(b.v)
    /\ \A i \in 1..Len(a.v) : SameUpToKeyOrder(a.v[i], b.v[i])
  ELSE a = b

SignCallsInFlight == {c \in DOMAIN calls : calls[c].op = "sign"}
VerifyCallsInFlight == {c \in DOMAIN calls : calls[c].op = "verify"}

\* C15: canonicalization is order-invariant and deterministic.  Two sign calls
\* whose contexts have the same keys and values at every level (objects inside
\* arrays included), in whatever order the keys were created, submit
\* byte-identical messages; so do two calls with the same context.
CanonicalizationOrderInvariant ==
  \A c \in SignCallsInFlight, d \in SignCallsInFlight :
    SameUpToKeyOrder(calls[c].passed, calls[d].passed)
    => calls[c].command.Message = calls[d].command.Message

\* Two sign calls are in flight, one with the order context and one with the
\* same context whose keys are in another order at the top level and inside
\* the object in the array.
CanonicalizationOrderWitness ==
  \E c \in SignCallsInFlight, d \in SignCallsInFlight :
    /\ calls[c].passed = OrderContext
    /\ SameUpToKeyOrder(calls[c].passed, calls[d].passed)
    /\ ObjectKeys(calls[d].passed.v) # ObjectKeys(OrderContext.v)
    /\ GetOwn(calls[d].passed.v, << "7" >>) # GetOwn(OrderContext.v, << "7" >>)
    /\ calls[c].command.Message = calls[d].command.Message

\* C17: no public-key caching.  Every verify call sends its GetPublicKeyCommand
\* for the key the envelope names, also for an envelope found valid before;
\* and the outcome of verifying an envelope as sign returned it follows what
\* the service returned during that call: valid exactly when the response
\* carries the key that signed it.
NoKeyCaching ==
  \A c \in VerifyCallsInFlight :
    LET call == calls[c] IN
    /\ call.sent = 1
    /\ call.command = [KeyId |-> call.passed.keyId]
    /\ (call.pc = "done" /\ call.tamper = "none"
        /\ call.passed.algorithm \in SupportedAlgorithms)
       => (call.outcome.value.isValid <=> AnsweredWithKeyOf(c, call.kept.record.pair))

\* An envelope that a verify has found valid is verified once more after its
\* key was replaced at the service: the service answered with the new key and
\* verify returned isValid = false.
NoKeyCachingWitness ==
  \E c \in VerifyDone :
    /\ calls[c].kept.verified
    /\ calls[c].tamper = "none"
    /\ keyStore[calls[c].passed.keyId] \notin {0, calls[c].kept.record.pair}
    /\ AnsweredWithNamedKey(c)
    /\ calls[c].outcome.value.error = Some("Signature verification failed")

\* The result the call returns when it runs alone with the same arguments,
\* the same response and the same clock reading.
ResultAlone(call) ==
  IF call.op = "sign"
  THEN sign(config[call.engine].keyId, call.passed, call.algorithm, call.response,
            IF call.outcome.kind = "return" THEN call.outcome.value.timestamp ELSE 0)
  ELSE verify(issued, call.passed, call.response)

CrossApplicationVerification ==
  /\ \A c \in VerifyCallsInFlight : calls[c].command.KeyId = calls[c].passed.keyId
  /\ \A c \in VerifyCallsInFlight, d \in VerifyCallsInFlight :
       calls[c].passed = calls[d].passed
       => /\ calls[c].command = calls[d].command
          /\ (calls[c].pc = "done" /\ calls[d].pc = "done"
              /\ calls[c].response = calls[d].response)
             => calls[c].outcome = calls[d].outcome

\* The trading engine and the risk engine, configured with different keys,
\* have both verified the same envelope and found it valid.
CrossApplicationWitness ==
  \E c \in VerifyDone, d \in VerifyDone :
    /\ calls[c].engine = "trading" /\ calls[d].engine = "risk"
    /\ config["trading"].keyId # config["risk"].keyId
    /\ calls[c].passed = calls[d].passed
    /\ calls[c].outcome.value.isValid /\ calls[d].outcome.value.isValid

(***************************************************************************)
(* derToPem on its own: binary keys of every length up to MaxDerLen, two   *)
(* conversions side by side, the second of the same key or of another key  *)
(* of the same length.                                                      *)
(***************************************************************************)
MaxDerLen == 97

DerSeeds == {0, 1, 2}

DerBuffer(len, seed) == [i \in 1..len |-> (48 + 85 * seed + (13 + 2 * seed) * i) % 256]

DerBuffers == {DerBuffer(len, seed) : len \in 0..MaxDerLen, seed \in DerSeeds}

InitPem ==
  /\ \E first \in DerBuffers :
       \E second \in {first} \cup {d \in DerBuffers : Len(d) = Len(first) /\ d = DerBuffer(Len(d), 1)} :
         calls = << [op |-> "derToPem", pc |-> "call", derBuffer |-> first, pem |-> None],
                    [op |-> "derToPem", pc |-> "call", derBuffer |-> second, pem |-> None] >>
  /\ keyStore = [k \in KeyIds |-> 0]
  /\ issued = {}
  /\ config = [e \in Engines |-> [keyId |-> "alias/trading-key"]]
  /\ envelopes = {}
  /\ now = 0
  /\ apps = [a \in Apps |-> NewApp]

DerToPem(c) ==
  /\ calls[c].pc = "call"
  /\ calls' = [calls EXCEPT ![c] =
                 [@ EXCEPT !.pc = "done", !.pem = Some(derToPem(calls[c].derBuffer))]]
  /\ UNCHANGED << keyStore, issued, config, envelopes, now, apps >>

NextPem == \E c \in DOMAIN calls : DerToPem(c)

SpecPem == InitPem /\ [][NextPem]_vars

\* A text split at its newlines.
RECURSIVE SplitLines(_)
SplitLines(text) ==
  IF \A i \in 1..Len(text) : text[i] # "\n" THEN << text >>
  ELSE LET i == CHOOSE j \in 1..Len(text) :
                  text[j] = "\n" /\ \A k \in 1..(j - 1) : text[k] # "\n"
       IN  << SubSeq(text, 1, i - 1) >> \o SplitLines(SubSeq(text, i + 1, Len(text)))

PemDone == {c \in DOMAIN calls : calls[c].op = "derToPem" /\ calls[c].pc = "done"}

\* C22: key-format conversion.  For a non-empty binary key derToPem returns
\* the BEGIN PUBLIC KEY line, the base64 of the key in lines of exactly 64
\* characters except a possibly shorter (never empty) last one, and the END
\* PUBLIC KEY line, separated by single newlines; the body lines put together
\* are the base64 of the key; equal keys give equal texts.
KeyFormatConversion ==
  /\ \A c \in PemDone :
       calls[c].derBuffer # << >> =>
         LET lines == SplitLines(The(calls[c].pem))
             n     == Len(lines)
             body  == SubSeq(lines, 2, n - 1)
         IN  /\ n >= 3
             /\ lines[1] = PemHeader
             /\ lines[n] = PemFooter
             /\ \A i \in 1..(Len(body) - 1) : Len(body[i]) = 64
             /\ Len(body[Len(body)]) \in 1..64
             /\ Concat(body) = toBase64(calls[c].derBuffer)
  /\ \A c, d \in PemDone :
       calls[c].derBuffer = calls[d].derBuffer => calls[c].pem = calls[d].pem

\* Two conversions of the same 97-byte key are done: two full lines and a
\* shorter third one.
KeyFormatConversionWitness ==
  /\ PemDone = {1, 2}
  /\ calls[1].derBuffer = calls[2].derBuffer
  /\ Len(calls[1].derBuffer) = 97
  /\ Len(SplitLines(The(calls[1].pem))) = 5

(***************************************************************************)
(* The signer's config is a public field: its holder, or another task of   *)
(* the same process, may assign config.keyId at any time, also while a     *)
(* sign call waits for the key service.                                     *)
(***************************************************************************)
Reconfigure(e, keyId) ==
  /\ config[e].keyId # keyId
  /\ config' = [config EXCEPT ![e] = [keyId |-> keyId]]
  /\ UNCHANGED << keyStore, issued, calls, envelopes, now, apps >>

NextReconfigure ==
  \/ /\ Idle
     /\ \E e \in Engines, context \in Contexts :
          SignCall(e, context, DefaultAlgorithm, TRUE)
  \/ \E e \in Engines, keyId \in KeyIds : Reconfigure(e, keyId)
  \/ SignSteps

SpecReconfigure == Init /\ [][NextReconfigure]_vars

\* C23: key identifier consistency in sign.  The keyId of a returned envelope
\* is the KeyId the SignCommand of that call named, also when config.keyId is
\* assigned while the call waits for the key service.
KeyIdConsistency ==
  \A c \in SignDone :
    calls[c].outcome.kind = "return"
    => calls[c].outcome.value.keyId = calls[c].command.KeyId

\* C21: same bytes signed and verified.  The message sign submits is the
\* UTF-8 bytes of canonicalizeContext(context); the message verify hands to
\* the verifier is the UTF-8 bytes of canonicalizeContext(signedContext.context);
\* for an envelope as sign returned it the two are the same bytes.
SameBytesSignedAndVerified ==
  /\ \A c \in SignCallsInFlight :
       calls[c].pc = "await"
       => calls[c].command.Message = Utf8(canonicalizeContext(calls[c].passed))
  /\ \A c \in VerifyDone :
       "canonicalizeContext" \in calls[c].steps
       => /\ verifyMessage(calls[c].passed) = Utf8(canonicalizeContext(calls[c].passed.context))
          /\ calls[c].tamper = "none"
             => verifyMessage(calls[c].passed) = calls[c].kept.command.Message

\* verify has handed the verifier the message of an envelope of the order
\* context (keys not in sorted order) as sign returned it.
SameBytesWitness ==
  \E c \in VerifyDone :
    /\ calls[c].tamper = "none"
    /\ calls[c].kept.context = OrderContext
    /\ "canonicalizeContext" \in calls[c].steps
    /\ verifyMessage(calls[c].passed) = calls[c].kept.command.Message
    /\ AnsweredWithNamedKey(c)

\* C24: step order in verify.  The public key is fetched before the context
\* is canonicalized and before the algorithm is mapped: a verify call sends its
\* one GetPublicKeyCommand whatever the envelope's algorithm is; when the key
\* is unavailable the outcome is decided by the response alone, whatever the
\* algorithm and the signature are, and nothing has been canonicalized,
\* converted or mapped; when a key came for an unsupported algorithm, the
\* message and the PEM text were computed before the mapping failed.
FetchComesFirst ==
  /\ \A c \in VerifyCallsInFlight :
       /\ calls[c].sent = 1
       /\ calls[c].command = [KeyId |-> calls[c].passed.keyId]
  /\ \A c \in VerifyDone :
       LET call == calls[c] IN
       /\ KeyUnavailable(c)
          => /\ call.steps = {}
             /\ call.outcome.kind = "return"
             /\ call.outcome.value =
                  IF call.response.kind = "throw"
                  THEN [isValid |-> FALSE, context |-> None,
                        error |-> Some("Verification error: " \o ErrorText(call.response.error))]
                  ELSE [isValid |-> FALSE, context |-> None,
                        error |-> Some("Could not retrieve public key from KMS")]
       /\ (~KeyUnavailable(c) /\ call.signedContext.algorithm \notin SupportedAlgorithms)
          => call.steps = {"canonicalizeContext", "derToPem"}

\* verify has completed on an envelope with an unsupported algorithm and a
\* malformed signature for which the key service had no key: it has sent its
\* request and reports the missing key.
FetchComesFirstWitness ==
  \E c \in VerifyDone :
    /\ calls[c].signedContext.algorithm \notin SupportedAlgorithms
    /\ calls[c].tamper = "malformed"
    /\ calls[c].sent = 1
    /\ calls[c].response.kind = "ok"
    /\ ~IsSome(calls[c].response.PublicKey)
    /\ calls[c].outcome.value.error = Some("Could not retrieve public key from KMS")

\* C25: the timestamp is not authenticated.  verify of an envelope whose
\* timestamp was changed has the outcome verify has, on the same answer of
\* the key service, for the envelope as it was returned and for the envelope
\* with any other timestamp; an envelope that is valid stays valid.
TimestampNotAuthenticated ==
  \A c \in VerifyDone :
    LET call == calls[c] IN
    call.tamper = "timestamp"
    => /\ call.signedContext.timestamp # call.kept.signed.timestamp
       /\ \A t \in 0..(MaxClock + 1) :
            call.outcome = verify(issued, [call.kept.signed EXCEPT !.timestamp = t],
                                  call.response)
       /\ ( /\ call.kept.signed.algorithm \in SupportedAlgorithms
            /\ AnsweredWithKeyOf(c, call.kept.record.pair) )
          => /\ call.outcome.value.isValid
             /\ call.outcome.value.context = Some(call.kept.context)

\* verify has found an envelope valid whose timestamp is not the one sign
\* recorded.
TimestampNotAuthenticatedWitness ==
  \E c \in VerifyDone :
    /\ calls[c].tamper = "timestamp"
    /\ calls[c].signedContext.timestamp = calls[c].kept.signed.timestamp + 1
    /\ AnsweredWithNamedKey(c)
    /\ calls[c].outcome.value.isValid

\* Sign calls one after the other while time passes, against a key service
\* that may fail.
NextClock ==
  \/ SignCalls
  \/ \E c \in DOMAIN calls : KmsSignFails(c)
  \/ SignSteps
  \/ Tick

SpecClock == Init /\ [][NextClock]_vars

\* C26: timestamp ordering.  sign reads the clock after the key service has
\* answered: the timestamp of a returned envelope is not earlier than the
\* clock value at which the answer arrived and is the clock value at which
\* sign completed; a sign that fails yields an error and no timestamp; an
\* envelope returned by a later sign call has a timestamp not earlier than
\* that of an envelope returned before.
TimestampOrdering ==
  \A c \in SignDone :
    LET call == calls[c] IN
    /\ call.outcome.kind = "return"
       => /\ call.outcome.value.timestamp >= call.arrived
          /\ call.outcome.value.timestamp <= now
          /\ \A kept \in envelopes : kept.signed.timestamp <= call.outcome.value.timestamp
    /\ call.outcome.kind = "throw" => DOMAIN call.outcome = {"kind", "error"}

\* A second sign call has returned an envelope stamped later than its answer
\* arrived and later than the envelope returned before.
TimestampOrderingWitness ==
  \E c \in SignDone :
    /\ calls[c].outcome.kind = "return"
    /\ calls[c].arrived = 0
    /\ calls[c].outcome.value.timestamp = 1
    /\ \E kept \in envelopes : kept.signed.timestamp = 0

\* C27: canonicalization is injective up to key order.  Two contexts have the
\* same canonical bytes only if they have the same keys and the same values
\* at every level and the same elements in the same order in every array:
\* an edited context whose canonical bytes are those that were signed has
\* the keys and values of the signed one.
CanonicalizationInjective ==
  \A c \in VerifyCallsInFlight :
    Utf8(canonicalizeContext(calls[c].passed.context)) = calls[c].kept.command.Message
    => SameUpToKeyOrder(calls[c].passed.context, calls[c].kept.context)

(***************************************************************************)
(* The applications: initialization with its self-test.                    *)
(***************************************************************************)
\* The apps that test their signer when they initialize.
InitializingApps == {"TradingApp", "DemoFDC3App", "useFDC3WithKMS", "server"}

\* Those that set up their FDC3 listeners inside the same try block.
ListeningApps == {"TradingApp", "DemoFDC3App"}

\* The signer an app constructs (by the key identifier of its configuration).
SignerOf(a) == IF a \in {"RiskManagementApp", "SecureFDC3App"} THEN "risk" ELSE "trading"

TickerContext(ticker) ==
  Obj(<< Prop(<< "t", "y", "p", "e" >>,
              Str(<< "f", "d", "c", "3", ".", "i", "n", "s", "t", "r", "u", "m", "e", "n", "t" >>)),
         Prop(<< "i", "d" >>, Obj(<< Prop(<< "t", "i", "c", "k", "e", "r" >>, Str(ticker)) >>)) >>)

\* testContext of each app.
TestContext(a) ==
  CASE a = "DemoFDC3App" ->
         Obj(TickerContext(<< "D", "E", "M", "O" >>).v
             \o << Prop(<< "n", "a", "m", "e" >>,
                        Str(<< "D", "e", "m", "o", " ", "I", "n", "s", "t", "r", "u", "m",
                               "e", "n", "t" >>)) >>)
    [] a = "server" ->
         Obj(TickerContext(<< "T", "E", "S", "T" >>).v
             \o << Prop(<< "n", "a", "m", "e" >>,
                        Str(<< "T", "e", "s", "t", " ", "I", "n", "s", "t", "r", "u", "m",
                               "e", "n", "t" >>)) >>)
    [] OTHER -> TickerContext(<< "T", "E", "S", "T" >>)

\* What a caller holds of a sign call that returned: the envelope, the context
\* it passed, the command that was sent and what the service issued, if it did.
KeptOf(call) ==
  [signed |-> call.outcome.value, context |-> call.context, command |-> call.command,
   record |-> call.response.record, verified |-> FALSE]

AsReturned(signed) == [kind |-> "none", signedContext |-> signed]

\* Initialization ends before the self-test: the FDC3 agent (TradingApp, the
\* hook) or the signer module (the hook, the demo server) is not available.
InitializeFails(a) ==
  /\ a \in InitializingApps \ {"DemoFDC3App"}
  /\ apps[a].pc = "new"
  /\ apps' = [apps EXCEPT ![a] = [@ EXCEPT !.pc = "ready", !.enabled = FALSE]]
  /\ UNCHANGED << keyStore, issued, config, calls, envelopes, now >>

\* The app constructs its signer and calls sign(testContext).
InitializeSigns(a) ==
  /\ a \in InitializingApps
  /\ apps[a].pc = "new"
  /\ Idle
  /\ Cardinality(issued) < MaxIssued
  /\ calls' = NewCall :> SignCallRecord(SignerOf(a), TestContext(a), DefaultAlgorithm, TRUE)
              @@ calls
  /\ apps' = [apps EXCEPT ![a] = [@ EXCEPT !.pc = "signing", !.call = NewCall]]
  /\ UNCHANGED << keyStore, issued, config, envelopes, now >>

\* sign has completed: the app calls verify(signed) on the same signer, or
\* its catch clause takes what sign threw.
InitializeVerifies(a) ==
  /\ apps[a].pc = "signing"
  /\ Done(apps[a].call, "sign")
  /\ LET c == apps[a].call
         call == calls[c]
     IN  IF call.outcome.kind = "throw"
         THEN /\ calls' = [d \in DOMAIN calls \ {c} |-> calls[d]]
              /\ apps' = [apps EXCEPT ![a] =
                            [@ EXCEPT !.pc = "ready", !.call = 0,
                                      !.enabled = IF a = "TradingApp" THEN FALSE ELSE @]]
         ELSE /\ calls' = [calls EXCEPT ![c] =
                             VerifyCallRecord(SignerOf(a), KeptOf(call),
                                              AsReturned(call.outcome.value))]
              /\ apps' = [apps EXCEPT ![a] =
                            [@ EXCEPT !.pc = "verifying",
                                      !.signed = Some(call.outcome.value)]]
  /\ UNCHANGED << keyStore, issued, config, envelopes, now >>

\* (A variant that enables signing whatever the verification says.)
InitializeCompletesUnchecked(a) ==
  /\ apps[a].pc = "verifying"
  /\ Done(apps[a].call, "verify")
  /\ LET c == apps[a].call
         out == calls[c].outcome
     IN  /\ calls' = [d \in DOMAIN calls \ {c} |-> calls[d]]
         /\ apps' = [apps EXCEPT ![a] =
                       [@ EXCEPT !.pc = IF a \in ListeningApps THEN "listeners" ELSE "ready",
                                 !.call = 0,
                                 !.verification = IF out.kind = "return" THEN Some(out.value)
                                                  ELSE None,
                                 !.enabled = TRUE]]
  /\ UNCHANGED << keyStore, issued, config, envelopes, now >>

\* verify has completed: the flag is set when the result is valid; otherwise
\* TradingApp and DemoFDC3App throw into their catch clause, the demo server
\* warns and the hook does nothing.
InitializeCompletes(a) ==
  /\ apps[a].pc = "verifying"
  /\ Done(apps[a].call, "verify")
  /\ LET c == apps[a].call
         out == calls[c].outcome
         valid == out.kind = "return" /\ out.value.isValid
     IN  /\ calls' = [d \in DOMAIN calls \ {c} |-> calls[d]]
         /\ apps' = [apps EXCEPT ![a] =
                       [@ EXCEPT !.pc = IF valid /\ a \in ListeningApps THEN "listeners"
                                        ELSE "ready",
                                 !.call = 0,
                                 !.verification = IF out.kind = "return" THEN Some(out.value)
                                                  ELSE None,
                                 !.enabled = IF valid THEN TRUE
                                             ELSE IF a = "TradingApp" THEN FALSE ELSE @]]
  /\ UNCHANGED << keyStore, issued, config, envelopes, now >>

\* setupFDC3Listeners returns or throws; the catch clause of TradingApp
\* clears the flag, that of DemoFDC3App leaves it.
InitializeListeners(a, thrown) ==
  /\ apps[a].pc = "listeners"
  /\ apps' = [apps EXCEPT ![a] =
                [@ EXCEPT !.pc = "ready",
                          !.enabled = IF thrown /\ a = "TradingApp" THEN FALSE ELSE @]]
  /\ UNCHANGED << keyStore, issued, config, calls, envelopes, now >>

\* The steps of the calls the apps make: the key service answers or fails,
\* the signer resumes.
ServiceSteps ==
  \/ \E c \in DOMAIN calls : KmsSignResponds(c)
  \/ \E c \in DOMAIN calls : KmsSignFails(c)
  \/ \E c \in DOMAIN calls : SignResumes(c)
  \/ \E c \in DOMAIN calls : KmsGetPublicKeyResponds(c)
  \/ \E c \in DOMAIN calls : KmsGetPublicKeyFails(c)
  \/ \E c \in DOMAIN calls : VerifyResumes(c)

\* No other app has started: each app is a program of its own.
Alone(a) == \A b \in Apps \ {a} : apps[b] = NewApp

\* One app initializes, against a key service that may fail.
NextSelfTest ==
  \/ \E a \in Apps : Alone(a) /\ InitializeFails(a)
  \/ \E a \in Apps : Alone(a) /\ InitializeSigns(a)
  \/ \E a \in Apps : InitializeVerifies(a)
  \/ \E a \in Apps : InitializeCompletes(a)
  \/ \E a \in Apps, thrown \in BOOLEAN : InitializeListeners(a, thrown)
  \/ ServiceSteps
  \/ Tick

SpecSelfTest == Init /\ [][NextSelfTest]_vars

\* C28: signing is enabled only after a passed self-test.  The flag of an app
\* (isSigningEnabled, isKmsReady of the demo server) is true only if its sign
\* of the test context returned an envelope and verify of that envelope on
\* the same signer returned isValid = true; when sign raised or the result
\* was not valid, the flag is false when initialization has ended.
SelfTestGate ==
  \A a \in InitializingApps :
    LET app == apps[a] IN
    /\ app.enabled
       => /\ IsSome(app.signed)
          /\ IsSome(app.verification)
          /\ The(app.verification).isValid
          /\ The(app.verification).context = Some(The(app.signed).context)
    /\ app.pc = "verifying"
       => /\ calls[app.call].op = "verify"
          /\ calls[app.call].engine = SignerOf(a)
          /\ calls[app.call].passed = The(app.signed)
    /\ app.pc \in {"new", "signing", "verifying"} => ~app.enabled
    /\ ( /\ app.pc = "ready"
         /\ \/ ~IsSome(app.signed)
            \/ ~IsSome(app.verification)
            \/ ~The(app.verification).isValid )
       => ~app.enabled

\* The demo server has ended its initialization with isKmsReady true, its
\* self-test having passed.
SelfTestGateWitness ==
  /\ apps["server"].pc = "ready"
  /\ apps["server"].enabled
  /\ IsSome(apps["server"].signed)
  /\ The(apps["server"].verification).isValid

(***************************************************************************)
(* The applications: receiving a context.                                  *)
(***************************************************************************)
\* The apps whose listeners check signatures.  TradingApp has two listeners
\* (contexts and the PlaceOrder intent); DemoFDC3App and TradingApp verify
\* only when their flag is set.
ReceivingApps == {"RiskManagementApp", "TradingApp", "DemoFDC3App", "SecureFDC3App"}

Listeners(a) == IF a = "TradingApp" THEN {"context", "intent"} ELSE {"context"}

FlaggedApps == {"TradingApp", "DemoFDC3App"}

TypeKey == << "t", "y", "p", "e" >>

\* A value in a condition: false for null, 0 and the empty string.
Truthy(x) ==
  CASE x.t = "null" -> FALSE
    [] x.t = "bool" -> x.v
    [] x.t = "num" -> x.v # 0
    [] x.t = "str" -> x.v # << >>
    [] OTHER -> TRUE

\* isSignedContext(context).  What arrives is an envelope (signature, keyId
\* and timestamp of the types sign gave them, the context as it arrives) or a
\* plain context, which has none of these members.
isSignedContext(received) ==
  /\ "signature" \in DOMAIN received
  /\ Truthy(received.context)
  /\ received.context.t = "obj"
  /\ HasOwn(received.context.v, TypeKey)
  /\ GetOwn(received.context.v, TypeKey).t = "str"

\* What may arrive for an envelope the sender kept: the envelope as sign
\* returned it, the envelope with a key of its context removed or a key
\* added to it, or the context alone (broadcast of signedOrder.context).
Deliveries(kept) ==
  LET ps == kept.signed.context.v IN
  {AsReturned(kept.signed)}
  \cup {[kind |-> "context",
         signedContext |-> [kept.signed EXCEPT !.context = Obj(RemoveAt(ps, i))]] :
          i \in 1..Len(ps)}
  \cup {[kind |-> "context",
         signedContext |-> [kept.signed EXCEPT !.context = Obj(DefineOwn(ps, k, Null))]] :
          k \in {k \in EditKeys : ~HasOwn(ps, k)}}
  \cup {[kind |-> "unsigned", signedContext |-> kept.context]}

\* An entry of what an app did with what arrived: the path taken, the
\* context handed to it, and the verification result when there was one.
Handled(path, context, received, verification) ==
  [path |-> path, context |-> context, received |-> received, verification |-> verification]

\* verifySignedContext of TradingApp when signing is not enabled.
SigningNotAvailable ==
  [isValid |-> FALSE, context |-> None, error |-> Some("KMS signing not available")]

\* A listener is called with what arrived.  A plain context goes to the
\* unsigned path at once; an envelope is verified first, unless the app's
\* flag is not set (DemoFDC3App returns, TradingApp treats it as not valid).
Receive(a, listener, kept, delivery) ==
  /\ a \in ReceivingApps
  /\ listener \in Listeners(a)
  /\ apps[a].pc = "ready"
  /\ apps[a].contexts = << >>
  /\ Idle
  /\ kept \in envelopes
  /\ LET received == delivery.signedContext IN
     IF ~isSignedContext(received)
     THEN /\ apps' = [apps EXCEPT ![a].contexts =
                        Append(@, Handled("unsigned", Some(received), received, None))]
          /\ UNCHANGED calls
     ELSE IF a \in FlaggedApps /\ ~apps[a].enabled
     THEN /\ apps' = [apps EXCEPT ![a].contexts =
                        IF a = "DemoFDC3App"
                        THEN Append(@, Handled("ignored", None, received, None))
                        ELSE Append(@, Handled("rejected", None, received,
                                               Some(SigningNotAvailable)))]
          /\ UNCHANGED calls
     ELSE /\ calls' = NewCall :> VerifyCallRecord(SignerOf(a), kept, delivery) @@ calls
          /\ apps' = [apps EXCEPT ![a] =
                        [@ EXCEPT !.pc = "verifying", !.call = NewCall,
                                  !.signed = Some(received)]]
  /\ UNCHANGED << keyStore, issued, config, envelopes, now >>

\* (A variant that processes the context of the envelope whatever the result.)
ReceiveCompletesUnverified(a) ==
  /\ apps[a].pc = "verifying"
  /\ Done(apps[a].call, "verify")
  /\ LET c == apps[a].call
         out == calls[c].outcome
         received == The(apps[a].signed)
     IN  /\ calls' = [d \in DOMAIN calls \ {c} |-> calls[d]]
         /\ apps' = [apps EXCEPT ![a] =
                       [@ EXCEPT !.pc = "ready", !.call = 0,
                                 !.contexts =
                                   Append(@, Handled("verified", Some(received.context),
                                                     received, Some(out.value)))]]
  /\ UNCHANGED << keyStore, issued, config, envelopes, now >>

\* verify has completed: a valid result sends verification.context to the
\* verified path (processVerifiedContext, handleVerifiedContext, processOrder);
\* any other result, or a throw, ends in the rejection handlers.
ReceiveCompletes(a) ==
  /\ apps[a].pc = "verifying"
  /\ Done(apps[a].call, "verify")
  /\ LET c == apps[a].call
         out == calls[c].outcome
         received == The(apps[a].signed)
         entry == IF out.kind = "throw"
                  THEN Handled("rejected", None, received, None)
                  ELSE IF out.value.isValid
                  THEN Handled("verified", Some(The(out.value.context)), received,
                               Some(out.value))
                  ELSE Handled("rejected", None, received, Some(out.value))
     IN  /\ calls' = [d \in DOMAIN calls \ {c} |-> calls[d]]
         /\ apps' = [apps EXCEPT ![a] =
                       [@ EXCEPT !.pc = "ready", !.call = 0,
                                 !.contexts = Append(@, entry)]]
  /\ UNCHANGED << keyStore, issued, config, envelopes, now >>

\* The receiving apps are initialized, TradingApp and DemoFDC3App with their
\* flag set or not.
InitReceive ==
  /\ keyStore = [k \in KeyIds |->
                   CASE k = "alias/trading-key" -> 1
                     [] k = "alias/risk-key" -> 2
                     [] k = "alias/settlement-key" -> 3
                     [] OTHER -> 0]
  /\ issued = {}
  /\ config = [e \in Engines |->
                 [keyId |-> IF e = "trading" THEN "alias/trading-key" ELSE "alias/risk-key"]]
  /\ calls = << >>
  /\ envelopes = {}
  /\ now = 0
  /\ \E on \in SUBSET FlaggedApps :
       apps = [a \in Apps |-> [NewApp EXCEPT !.pc = "ready", !.enabled = a \in on]]

\* The sender signs a context and keeps the envelope; what it sends arrives
\* at one of the receiving apps.
NextReceive ==
  \/ /\ Idle
     /\ envelopes = {}
     /\ \E context \in Contexts : SignCall("trading", context, DefaultAlgorithm, TRUE)
  \/ \E c \in DOMAIN calls : calls[c].op = "sign" /\ Collect(c)
  \/ /\ Idle
     /\ \A b \in Apps : apps[b].contexts = << >>
     /\ \E kept \in envelopes :
          \E delivery \in Deliveries(kept) :
            \E a \in ReceivingApps :
              \E listener \in Listeners(a) : Receive(a, listener, kept, delivery)
  \/ \E a \in Apps : ReceiveCompletes(a)
  \/ ServiceSteps

SpecReceive == InitReceive /\ [][NextReceive]_vars

\* C29: trusted processing only after verification.  What a receiving app
\* handles on its verified path is an envelope for which verify returned
\* isValid = true, and the context handled is the one verify returned; an
\* envelope whose verification was not valid is handed to neither the
\* verified nor the unsigned path; a verify in progress is of the envelope
\* that arrived.
VerifiedProcessingOnly ==
  \A a \in ReceivingApps :
    /\ apps[a].pc = "verifying"
       => /\ calls[apps[a].call].op = "verify"
          /\ calls[apps[a].call].passed = The(apps[a].signed)
    /\ \A i \in 1..Len(apps[a].contexts) :
         LET e == apps[a].contexts[i] IN
         /\ e.path = "verified"
            => /\ isSignedContext(e.received)
               /\ IsSome(e.verification)
               /\ The(e.verification).isValid
               /\ e.context = The(e.verification).context
               /\ e.context = Some(e.received.context)
         /\ (IsSome(e.verification) /\ ~The(e.verification).isValid)
            => /\ e.path = "rejected"
               /\ ~IsSome(e.context)
         /\ e.path = "unsigned" => ~isSignedContext(e.received) /\ ~IsSome(e.verification)

\* RiskManagementApp has handed the context of an envelope to its verified
\* path, verify having returned isValid = true for the envelope it received.
VerifiedProcessingWitness ==
  \E i \in 1..Len(apps["RiskManagementApp"].contexts) :
    LET e == apps["RiskManagementApp"].contexts[i] IN
    /\ e.path = "verified"
    /\ e.received \in {kept.signed : kept \in envelopes}
    /\ The(e.verification).isValid
    /\ e.context = Some(e.received.context)

(***************************************************************************)
(* The demo: the server with its signer, and the browser client.           *)
(***************************************************************************)
MaxBroadcasts == 2

\* instruments['AAPL'] of the client.
DemoInstrument ==
  Obj(TickerContext(<< "A", "A", "P", "L" >>).v
      \o << Prop(<< "n", "a", "m", "e" >>,
                 Str(<< "A", "p", "p", "l", "e", " ", "I", "n", "c", "." >>)) >>)

\* contextItem of receiveContext (with, for the record, the shouldSign
\* argument of the broadcastContext call that led to it).
ContextItem(context, source, signed, verified, shouldSign) ==
  [context |-> context, source |-> source, signed |-> signed, verified |-> verified,
   shouldSign |-> shouldSign]

\* FDC3DemoApp.initialize: GET /api/status answers with the server's flag
\* once the server listens (after initializeKMS), or the fetch fails.
ClientInitialize(fetched) ==
  /\ apps["FDC3DemoApp"].pc = "new"
  /\ fetched => apps["server"].pc = "ready"
  /\ apps' = [apps EXCEPT !["FDC3DemoApp"] =
                [@ EXCEPT !.pc = "ready",
                          !.enabled = IF fetched THEN apps["server"].enabled ELSE @]]
  /\ UNCHANGED << keyStore, issued, config, calls, envelopes, now >>

\* broadcastContext(context, shouldSign) up to its first await or to its end.
\* With shouldSign and isKmsReady it posts the context to /api/sign: the
\* fetch throws, or the server answers 503 when it is not ready, or the
\* server calls kmsSigner.sign(context).  Otherwise it records the context
\* itself, unsigned.
BroadcastContext(context, shouldSign, reached) ==
  /\ apps["FDC3DemoApp"].call = 0
  /\ Len(apps["FDC3DemoApp"].contexts) < MaxBroadcasts
  /\ Idle
  /\ IF shouldSign /\ apps["FDC3DemoApp"].enabled
     THEN IF ~reached \/ ~apps["server"].enabled
          THEN UNCHANGED << calls, apps >>
          ELSE /\ Cardinality(issued) < MaxIssued
               /\ calls' = NewCall :> SignCallRecord(SignerOf("server"), context,
                                                     DefaultAlgorithm, TRUE)
                           @@ calls
               /\ apps' = [apps EXCEPT !["FDC3DemoApp"].call = NewCall]
     ELSE /\ apps' = [apps EXCEPT !["FDC3DemoApp"].contexts =
                        << ContextItem(context, "Self", FALSE, None, shouldSign) >> \o @]
          /\ UNCHANGED calls
  /\ UNCHANGED << keyStore, issued, config, envelopes, now >>

\* The server's sign has completed: it answers with the envelope (success) or
\* with status 500 and an error; the client records the envelope it gets, and
\* nothing when there is none or when the response does not arrive.
BroadcastCompletes(arrived) ==
  /\ apps["FDC3DemoApp"].call # 0
  /\ Done(apps["FDC3DemoApp"].call, "sign")
  /\ LET c == apps["FDC3DemoApp"].call
         out == calls[c].outcome
     IN  /\ calls' = [d \in DOMAIN calls \ {c} |-> calls[d]]
         /\ apps' = [apps EXCEPT !["FDC3DemoApp"] =
                       [@ EXCEPT !.call = 0,
                                 !.contexts =
                                   IF arrived /\ out.kind = "return"
                                   THEN << ContextItem(out.value, "React Demo Server", TRUE,
                                                       Some(TRUE), TRUE) >> \o @
                                   ELSE @]]
  /\ UNCHANGED << keyStore, issued, config, envelopes, now >>

\* The server starts (initializeKMS with its self-test), the client page
\* loads, and the buttons are pressed.
NextDemo ==
  \/ InitializeFails("server")
  \/ InitializeSigns("server")
  \/ InitializeVerifies("server")
  \/ InitializeCompletes("server")
  \/ \E fetched \in BOOLEAN : ClientInitialize(fetched)
  \/ \E shouldSign, reached \in BOOLEAN : BroadcastContext(DemoInstrument, shouldSign, reached)
  \/ \E arrived \in BOOLEAN : BroadcastCompletes(arrived)
  \/ ServiceSteps

SpecDemo == Init /\ [][NextDemo]_vars

\* C30: demo client sign-and-send.  A context that broadcastContext was given
\* with shouldSign = true is in the client's list only as an envelope the
\* server signed; when the sign request fails or throws, or KMS is not
\* ready, no unsigned copy of it is recorded.
SignedOrNotRecorded ==
  \A i \in 1..Len(apps["FDC3DemoApp"].contexts) :
    LET item == apps["FDC3DemoApp"].contexts[i] IN
    item.shouldSign
    => /\ item.signed
       /\ "signature" \in DOMAIN item.context

=============================================================================
